---- MODULE Spec2Model ----
(***************************************************************************)
(* A model of the rust-sdk of protocol-v1: the account cache handle        *)
(* (WebSocketAccountSubscriber), the retrying remote reader                *)
(* (DriftRpcClient::get_account_data), the receiver thread spawned by      *)
(* ws_sub, and the user facade (ClearingHouseUser) with the transaction    *)
(* composer (ClearingHouse::send_tx).                                      *)
(***************************************************************************)
EXTENDS Integers, Sequences, FiniteSets, TLC

(***************************************************************************)
(* Bounds of the model.                                                    *)
(***************************************************************************)
\* keypairs the facade generates
MaxKeys == 2
\* tokens in the wallet's collateral token account
MaxTokens == 2
MaxHash == 2
\* successive contents the tracked account takes on the ledger
MaxVal == 3
\* live channels opened over the life of one handle
MaxChannels == 2
\* distinct transport errors the rpc endpoint can answer with
MaxErr == 2

(***************************************************************************)
(* Program constants.                                                      *)
(***************************************************************************)
\* `while retry < 3` in get_account_data
RetryBound == 3
\* Option::None of the cache slot and of the subscription marker
None == 0

Vals == 1 .. MaxVal
Errs == 1 .. MaxErr
Channels == 1 .. MaxChannels
\* "T" is the discriminator of the handle's own account type; "X" stands for
\* the bytes of any other account type or a malformed blob
Discs == {"T", "X"}
\* the encoding a subscription config asks for: the connection's
\* ws_acc_data_encoding, always Base64
Encodings == {"base64"}
\* the blobs an address can hold: the val-th content of the account, as a
\* record of the handle's type or as something that does not decode as one
Blobs == [disc : Discs, val : Vals]

VARIABLES
    data,          \* WebSocketAccountSubscriber.data: None or the cached record
    subscription,  \* WebSocketAccountSubscriber.subscription: None or a channel
    remote,        \* bytes stored on the ledger at the handle's address
    nChannels,     \* live channels opened so far (account_subscribe successes)
    spawned,       \* receiver threads spawned so far
    chanOpen,      \* per channel: the transport still delivers to its receiver
    chanEnc,       \* per channel: the encoding of its pushes
    queue,         \* per channel: pushed messages not yet received
    thread,        \* per channel: its receiver thread, "none" | "running" | "exited"
    consumed,      \* invocations of the registered consumer so far
    panicked,      \* the calling thread aborted (RefCell BorrowMutError)
    last,          \* the most recent call or thread step, with what it observed
    user_pubkey_and_nonce,  \* ClearingHouseUser._user_pubkey_and_nonce
    user_account,  \* ClearingHouseUser._user_account: <<>> or <<record>>
    keys,          \* keypairs generated so far (Keypair::new)
    userRemote,    \* the user account on the ledger: <<>> or <<record>>
    tokens,        \* balance of the wallet's collateral token account
    markets_data,  \* cache slot of the facade's Markets handle
    marketsRemote, \* version of the Markets account stored on the ledger
    markers,       \* DefaultClearingHouseAccount: per handle, is_subscribed()
    house,         \* the clearing house on the ledger, as the admin calls find it
    ulast          \* the most recent facade call, with what it did

\* the facade's fields and the accounts it works on
fvars == <<user_pubkey_and_nonce, user_account, keys, userRemote, tokens,
           markets_data, marketsRemote, markers, house>>

uvars == <<fvars, ulast>>

hvars == <<data, subscription, remote, nChannels, spawned, chanOpen,
           chanEnc, queue, thread, consumed, panicked, last>>

(***************************************************************************)
(* Remote reader: DriftRpcClient::get_account_data.                        *)
(***************************************************************************)
\* one answer of RpcClient::get_account_data: Ok(bytes) or Err(transport error)
OkResp(bytes) == [ok |-> TRUE, err |-> 0, disc |-> bytes.disc, val |-> bytes.val]
ErrResp(e) == [ok |-> FALSE, err |-> e, disc |-> "X", val |-> 0]

\* the answers the endpoint can give while the ledger holds `bytes`
Responses(bytes) == {OkResp(bytes)} \cup {ErrResp(e) : e \in Errs}

\* what the endpoint would answer to the 1st, 2nd, ... attempt of one call
\* (one more than the loop should ever ask for)
Answers(bytes) == [1 .. RetryBound + 1 -> Responses(bytes)]

\* the endpoint answering every attempt of one call alike: up, or down with
\* one error
SteadyAnswers(bytes) ==
    {[i \in 1 .. RetryBound + 1 |-> r] : r \in {OkResp(bytes), ErrResp(1)}}

\* T::try_deserialize: the leading discriminator must be T's
TryDeserialize(bytes) ==
    IF bytes.disc = "T" THEN [ok |-> TRUE, val |-> bytes.val]
                        ELSE [ok |-> FALSE, val |-> 0]

\* the retry loop; `trace` is the sequence of answers received so far, the
\* last of which is what `bytes` holds
RECURSIVE RetryLoopOffByOne(_, _, _)
RetryLoopOffByOne(answers, retry, trace) ==
    IF retry <= RetryBound
    THEN LET bytes == answers[Len(trace) + 1] IN
         IF bytes.ok THEN Append(trace, bytes)
         ELSE RetryLoopOffByOne(answers, retry + 1, Append(trace, bytes))
    ELSE trace

RECURSIVE RetryLoop(_, _, _)
RetryLoop(answers, retry, trace) ==
    IF retry < RetryBound
    THEN LET bytes == answers[Len(trace) + 1] IN
         IF bytes.ok THEN Append(trace, bytes)
         ELSE RetryLoop(answers, retry + 1, Append(trace, bytes))
    ELSE trace

\* a reader that treats a decode failure like a transport failure
RECURSIVE RetryLoopDecode(_, _, _)
RetryLoopDecode(answers, retry, trace) ==
    IF retry < RetryBound
    THEN LET bytes == answers[Len(trace) + 1] IN
         IF bytes.ok /\ TryDeserialize(bytes).ok THEN Append(trace, bytes)
         ELSE RetryLoopDecode(answers, retry + 1, Append(trace, bytes))
    ELSE trace

ReadResult(trace) ==
    LET bytes == trace[Len(trace)] IN
    IF ~bytes.ok
    THEN [kind |-> "ClientError", err |-> bytes.err, val |-> 0, trace |-> trace]
    ELSE IF TryDeserialize(bytes).ok
    THEN [kind |-> "Ok", err |-> 0, val |-> TryDeserialize(bytes).val, trace |-> trace]
    ELSE [kind |-> "AccountDeserializationError", err |-> 0, val |-> 0, trace |-> trace]

GetAccountDataRetryDecode(answers) == ReadResult(RetryLoopDecode(answers, 0, <<>>))

GetAccountData(answers) == ReadResult(RetryLoop(answers, 0, <<>>))

(***************************************************************************)
(* Account cache handle: WebSocketAccountSubscriber.                       *)
(***************************************************************************)
NeedsReadUnlessCached(force, d) == d = None

\* `if force || self.data.borrow().is_none()`
NeedsRead(force, d) == force \/ d = None

\* a handle that empties its slot when the read fails
GetDataClearsOnError(force, d, answers) ==
    IF NeedsRead(force, d)
    THEN LET t == GetAccountData(answers) IN
         IF t.kind = "Ok"
         THEN [data |-> t.val, kind |-> "Ok", err |-> 0, ret |-> t.val, trace |-> t.trace]
         ELSE [data |-> None, kind |-> t.kind, err |-> t.err, ret |-> 0, trace |-> t.trace]
    ELSE [data |-> d, kind |-> "Ok", err |-> 0, ret |-> d, trace |-> <<>>]

\* a get_data that goes to the ledger whether or not the slot is filled
GetDataForced(force, d, answers) ==
    LET t == GetAccountData(answers) IN
    IF t.kind = "Ok"
    THEN [data |-> t.val, kind |-> "Ok", err |-> 0, ret |-> t.val, trace |-> t.trace]
    ELSE [data |-> d, kind |-> t.kind, err |-> t.err, ret |-> 0, trace |-> t.trace]

\* get_data: the new cache slot, the result kind, the value returned, and the
\* remote reads issued
GetData(force, d, answers) ==
    IF NeedsRead(force, d)
    THEN LET t == GetAccountData(answers) IN
         IF t.kind = "Ok"
         THEN [data |-> t.val, kind |-> "Ok", err |-> 0, ret |-> t.val, trace |-> t.trace]
         ELSE [data |-> d, kind |-> t.kind, err |-> t.err, ret |-> 0, trace |-> t.trace]
    ELSE [data |-> d, kind |-> "Ok", err |-> 0, ret |-> d, trace |-> <<>>]

IsSubscribed(sub) == sub # None

NoCall ==
    [op |-> "none", force |-> FALSE, kind |-> "none", err |-> 0, ret |-> 0,
     trace |-> <<>>, preData |-> None, preSub |-> None, preChannels |-> 0,
     preSpawned |-> 0, sent |-> FALSE, accepted |-> FALSE, chan |-> 0,
     answers |-> <<>>]

\* no facade call in the most recent step
NoUserCall ==
    [op |-> "none", kind |-> "none", stage |-> "none", amount |-> 0,
     keysBefore |-> 0, keysAfter |-> 0, kp |-> 0, user |-> <<>>,
     submissions |-> <<>>, reads |-> 0, args |-> <<>>, pre |-> <<>>,
     stale |-> FALSE, ledgerChanged |-> FALSE]

HInit ==
    /\ data = None
    /\ subscription = None
    /\ remote \in [disc : Discs, val : {1}]
    /\ nChannels = 0
    /\ spawned = 0
    /\ chanOpen = [c \in Channels |-> FALSE]
    /\ chanEnc = [c \in Channels |-> "base64"]
    /\ queue = [c \in Channels |-> <<>>]
    /\ thread = [c \in Channels |-> "none"]
    /\ consumed = 0
    /\ panicked = FALSE
    /\ last = NoCall

\* DriftAccount::get_data(force)
GetDataCall ==
    /\ ~panicked
    /\ \E force \in BOOLEAN, answers \in SteadyAnswers(remote) :
          LET r == GetData(force, data, answers) IN
          /\ data' = r.data
          /\ last' = [NoCall EXCEPT !.op = "get_data", !.force = force,
                         !.kind = r.kind, !.err = r.err, !.ret = r.ret,
                         !.trace = r.trace, !.preData = data]
    /\ UNCHANGED <<subscription, remote, nChannels, spawned, chanOpen,
                   chanEnc, queue, thread, consumed, panicked>>
    /\ UNCHANGED uvars

\* PubsubClient::account_subscribe followed by thread::spawn, for the channel
\* numbered c
ChannelOpened(c, enc) ==
    /\ nChannels' = c
    /\ spawned' = spawned + 1
    /\ chanEnc' = [chanEnc EXCEPT ![c] = enc]
    /\ queue' = [queue EXCEPT ![c] = <<>>]
    /\ thread' = [thread EXCEPT ![c] = "running"]

\* subscribe, the channel opening: ws_sub opens a channel and spawns its
\* receiver without looking at the marker, then the marker is replaced; the
\* replaced PubsubAccountClientSubscription is dropped, which may close its
\* channel
SubscribeOk(enc, dropCloses) ==
    /\ nChannels < MaxChannels
    /\ ChannelOpened(nChannels + 1, enc)
    /\ chanOpen' = [c \in Channels |->
                       IF c = nChannels + 1 THEN TRUE
                       ELSE IF c = subscription /\ dropCloses THEN FALSE
                       ELSE chanOpen[c]]
    /\ subscription' = nChannels + 1
    /\ last' = [NoCall EXCEPT !.op = "subscribe", !.kind = "Ok",
                   !.preSub = subscription,
                   !.preChannels = nChannels, !.preSpawned = spawned,
                   !.chan = nChannels + 1]

\* DriftAccount::subscribe(url, config, consumer), the channel opened
Subscribe ==
    /\ ~panicked
    /\ \E enc \in Encodings, dropCloses \in BOOLEAN :
          /\ IsSubscribed(subscription) \/ ~dropCloses
          /\ SubscribeOk(enc, dropCloses)
    /\ UNCHANGED <<data, remote, consumed, panicked>>
    /\ UNCHANGED uvars

\* a subscribe that gives up the marker it holds before it asks for the new
\* channel, and so loses it when the channel cannot be opened
SubscribeFailDropsMarker ==
    /\ ~panicked
    /\ subscription' = None
    /\ last' = [NoCall EXCEPT !.op = "subscribe", !.kind = "PubsubClientError",
                   !.preSub = subscription,
                   !.preChannels = nChannels, !.preSpawned = spawned]
    /\ UNCHANGED <<data, remote, nChannels, spawned,
                   chanOpen, chanEnc, queue, thread, consumed, panicked>>
    /\ UNCHANGED uvars

\* DriftAccount::subscribe, account_subscribe failing: `?` returns the error
\* before any thread is spawned or the marker touched
SubscribeFail ==
    /\ ~panicked
    /\ last' = [NoCall EXCEPT !.op = "subscribe", !.kind = "PubsubClientError",
                   !.preSub = subscription,
                   !.preChannels = nChannels, !.preSpawned = spawned]
    /\ UNCHANGED <<data, subscription, remote, nChannels, spawned,
                   chanOpen, chanEnc, queue, thread, consumed, panicked>>
    /\ UNCHANGED uvars

\* unsubscribe: the Ref of `self.subscription.borrow()` in the match scrutinee
\* is alive for the whole match, so the replace_with inside and_then, which
\* runs when send_unsubscribe returned Ok, finds the cell borrowed and aborts
UnsubscribeBody(accepted) ==
    IF subscription = None
    THEN /\ last' = [NoCall EXCEPT !.op = "unsubscribe", !.kind = "Ok",
                        !.preSub = subscription]
         /\ UNCHANGED <<subscription, chanOpen, panicked>>
    ELSE IF accepted
    THEN /\ chanOpen' = [chanOpen EXCEPT ![subscription] = FALSE]
         /\ panicked' = TRUE
         /\ last' = [NoCall EXCEPT !.op = "unsubscribe", !.kind = "Panic",
                        !.preSub = subscription,
                        !.sent = TRUE, !.accepted = TRUE, !.chan = subscription]
         /\ UNCHANGED subscription
    ELSE /\ last' = [NoCall EXCEPT !.op = "unsubscribe",
                        !.kind = "PubsubClientError",
                        !.preSub = subscription, !.sent = TRUE,
                        !.chan = subscription]
         /\ UNCHANGED <<subscription, chanOpen, panicked>>

\* DriftAccount::unsubscribe()
Unsubscribe ==
    /\ ~panicked
    /\ \E accepted \in BOOLEAN :
          /\ subscription = None => accepted
          /\ UnsubscribeBody(accepted)
    /\ UNCHANGED <<data, remote, nChannels, spawned, chanEnc, queue,
                   thread, consumed>>
    /\ UNCHANGED uvars

(***************************************************************************)
(* The ledger and the transport.                                           *)
(***************************************************************************)
\* the account changes on the ledger; the server pushes the new bytes on
\* every channel still open on the address. The receiving end `rx` of a
\* channel lives in its receiver thread: a push to a channel whose thread has
\* returned reaches nobody
LedgerWrite ==
    /\ ~panicked
    /\ \E bytes \in Blobs :
          /\ bytes.val = remote.val + 1
          /\ remote' = bytes
          /\ queue' = [c \in Channels |->
                          IF chanOpen[c] /\ thread[c] = "running"
                          THEN Append(queue[c], [enc |-> chanEnc[c],
                                                 disc |-> bytes.disc,
                                                 val |-> bytes.val])
                          ELSE queue[c]]
    /\ ulast' = NoUserCall
    /\ UNCHANGED <<data, subscription, nChannels, spawned, chanOpen, chanEnc,
                   thread, consumed, panicked, last>>
    /\ UNCHANGED fvars

\* the transport of an open channel fails under its receiver
ChannelFail ==
    /\ ~panicked
    /\ \E c \in Channels :
          /\ chanOpen[c]
          /\ thread[c] = "running"
          /\ chanOpen' = [chanOpen EXCEPT ![c] = FALSE]
    /\ UNCHANGED <<data, subscription, remote, nChannels, spawned,
                   chanEnc, queue, thread, consumed, panicked, last>>
    /\ UNCHANGED uvars

(***************************************************************************)
(* The receiver thread spawned by ws_sub.                                  *)
(***************************************************************************)
\* what the thread does with one received message: "delivered" (consumer
\* invoked), "decode_err" (logged) or "skipped" (not Binary/Base64)
Handle(msg) ==
    IF msg.enc # "base64" THEN "skipped"
    ELSE IF TryDeserialize(msg).ok THEN "delivered"
    ELSE "decode_err"

\* `return;` after the first Ok(response): the closure ends, the thread exits
ThreadAfterMessage == "exited"

\* a receiver that stores every record it decodes in the handle's slot
SlotWrittenByReceiver(d, msg) ==
    IF Handle(msg) = "delivered" THEN TryDeserialize(msg).val ELSE d

\* the handle's slot after the receiver has dealt with msg: the closure moves
\* rx, name and consumer into the thread and nothing else, and the decoded
\* record goes to consumer(t) only
SlotAfterRecv(d, msg) == d

\* rx.recv() returns Ok(response)
ThreadRecv ==
    /\ ~panicked
    /\ \E c \in Channels :
          /\ thread[c] = "running"
          /\ queue[c] # <<>>
          /\ UNCHANGED <<subscription, remote, nChannels,
                         spawned, chanEnc, panicked>>
          /\ LET msg == Head(queue[c]) IN
             /\ data' = SlotAfterRecv(data, msg)
             /\ consumed' = IF Handle(msg) = "delivered"
                            THEN consumed + 1 ELSE consumed
             /\ last' = [NoCall EXCEPT !.op = "recv", !.kind = Handle(msg),
                            !.ret = TryDeserialize(msg).val, !.chan = c,
                            !.preData = data, !.preSub = subscription]
          /\ thread' = [thread EXCEPT ![c] = ThreadAfterMessage]
          /\ queue' = [queue EXCEPT ![c] = IF thread'[c] = "running"
                                           THEN Tail(queue[c]) ELSE <<>>]
          /\ chanOpen' = [chanOpen EXCEPT
                             ![c] = chanOpen[c] /\ thread'[c] = "running"]
    /\ UNCHANGED uvars

\* rx.recv() returns Err: the channel is gone; the thread logs and returns
ThreadRecvErr ==
    /\ ~panicked
    /\ \E c \in Channels :
          /\ thread[c] = "running"
          /\ queue[c] = <<>>
          /\ ~chanOpen[c]
          /\ thread' = [thread EXCEPT ![c] = "exited"]
          /\ last' = [NoCall EXCEPT !.op = "recv_err", !.kind = "RecvError",
                         !.chan = c, !.preSub = subscription]
    /\ UNCHANGED <<data, subscription, remote, nChannels, spawned,
                   chanOpen, chanEnc, queue, consumed, panicked>>
    /\ UNCHANGED uvars

(***************************************************************************)
(* The user facade: ClearingHouseUser, its operation builders and the      *)
(* transaction composer ClearingHouse::send_tx.  The facade's              *)
(* accounts.state() is the handle above: `data` is its cache slot and      *)
(* `remote` the State account on the ledger.                               *)
(***************************************************************************)
\* addresses are sequences of strings
NoPubkey == <<>>
DefaultPubkey == <<"default">>
ProgramId == <<"clearing_house">>
WalletPubkey == <<"wallet">>
RentId == <<"sysvar_rent">>
SystemProgramId == <<"system_program">>
TokenProgramId == <<"spl_token">>
MarketsPubkey == <<"markets">>
CollateralAccountPubkey == <<"user_token_account">>

\* the address of the i-th keypair made by Keypair::new()
KeyPubkey(i) == <<"keypair", ToString(i)>>

\* the bump seeds find_program_address tries before one yields an address off
\* the curve: some fixed number for each seed list, different here for the
\* seed lists the SDK uses
BumpsTried(seeds) ==
    CASE seeds = <<"collateral_vault">> -> 0
      [] seeds = <<"insurance_vault">> -> 1
      [] seeds = <<"clearing_house">> -> 2
      [] OTHER -> 2 + Len(seeds)

\* Pubkey::find_program_address: a function of the seeds and the program only
FindProgramAddress(seeds, program) ==
    [pubkey |-> <<"pda">> \o program \o seeds, nonce |-> 255 - BumpsTried(seeds)]

\* get_state_pubkey / the State handle's address
StatePubkey == FindProgramAddress(<<"clearing_house">>, ProgramId).pubkey

\* the fields of the v-th content of the State account the builders read
StateRecord(v) ==
    [whitelist_mint |-> IF v % 2 = 0 THEN <<"whitelist_mint">> ELSE DefaultPubkey,
     collateral_vault |-> <<"collateral_vault", ToString(v)>>,
     funding_payment_history |-> <<"funding_payment_history", ToString(v)>>,
     deposit_history |-> <<"deposit_history", ToString(v)>>,
     collateral_vault_authority |-> <<"collateral_vault_authority", ToString(v)>>,
     insurance_vault |-> <<"insurance_vault", ToString(v)>>,
     insurance_vault_authority |-> <<"insurance_vault_authority", ToString(v)>>,
     markets |-> MarketsPubkey,
     trade_history |-> <<"trade_history", ToString(v)>>,
     funding_rate_history |-> <<"funding_rate_history", ToString(v)>>,
     curve_history |-> <<"curve_history", ToString(v)>>,
     liquidation_history |-> <<"liquidation_history", ToString(v)>>]

\* the slots of the Markets account
MarketSlots == 64

\* Markets::index_from_u64: the u64 index as a usize, the same number
IndexFromU64(market_index) == market_index

\* the fields of the v-th content of the Markets account the builders read
MarketsRecord(v) ==
    [slot \in 0 .. MarketSlots - 1 |->
        [initialized |-> slot = 0,
         oracle |-> <<"oracle", ToString(slot), ToString(v)>>]]

\* the Markets account as the endpoint returns it
MarketsBlob == [disc |-> "T", val |-> marketsRemote]

DiscountTokenPubkey == <<"discount_token">>
ReferrerPubkey == <<"referrer">>

\* market indices a caller may pass: the first and last slot, and past the end
MarketIndexes == {0, MarketSlots - 1, MarketSlots}

\* spl_associated_token_account::get_associated_token_address
AssociatedTokenAddress(wallet, mint) == <<"ata">> \o wallet \o mint

Amounts == 1 .. MaxTokens
\* the recent blockhashes the endpoint can hand out
Hashes == 1 .. MaxHash

\* the facade's own mutable state, threaded through the steps of one call
Facade ==
    [data |-> data, memo |-> user_pubkey_and_nonce, ucache |-> user_account,
     keys |-> keys, mdata |-> markets_data]

\* a facade that derives the user address from the "user" seed alone when the
\* slot is empty
UserPdaWithoutWallet(f) ==
    LET memo == IF f.memo = <<>>
                THEN <<FindProgramAddress(<<"user">>, ProgramId)>>
                ELSE f.memo
    IN [f |-> [f EXCEPT !.memo = memo], pubkey |-> memo[1].pubkey,
        nonce |-> memo[1].nonce]

\* user_account_pubkey_and_nonce: derive once, then serve the memoised pair
UserAccountPubkeyAndNonce(f) ==
    LET memo == IF f.memo = <<>>
                THEN <<FindProgramAddress(<<"user">> \o WalletPubkey, ProgramId)>>
                ELSE f.memo
    IN [f |-> [f EXCEPT !.memo = memo], pubkey |-> memo[1].pubkey,
        nonce |-> memo[1].nonce]

NoIx == [name |-> "none"]

\* initialize_user_ix: the new positions keypair, the user address and the
\* InitializeUser operation
InitializeUserIx(f, answers) ==
    LET u == UserAccountPubkeyAndNonce(f)
        g == GetData(FALSE, u.f.data, answers)
    IN
    IF g.kind # "Ok"
    THEN [kind |-> g.kind, f |-> [u.f EXCEPT !.data = g.data], kp |-> 0,
          user |-> u.pubkey, ix |-> NoIx, reads |-> Len(g.trace)]
    ELSE
    LET state == StateRecord(g.ret)
        whitelist == state.whitelist_mint # DefaultPubkey
        kp == u.f.keys + 1
    IN [kind |-> "Ok",
        f |-> [u.f EXCEPT !.data = g.data, !.keys = kp],
        kp |-> kp,
        user |-> u.pubkey,
        ix |-> [program_id |-> ProgramId,
                name |-> "InitializeUser",
                args |-> [user_nonce |-> u.nonce, whitelist_token |-> whitelist],
                accounts |-> [user |-> u.pubkey,
                              state |-> StatePubkey,
                              user_positions |-> KeyPubkey(kp),
                              authority |-> WalletPubkey,
                              rent |-> RentId,
                              system_program |-> SystemProgramId],
                remaining |->
                    IF whitelist
                    THEN <<[pubkey |-> AssociatedTokenAddress(
                                           WalletPubkey, state.whitelist_mint),
                            is_signer |-> FALSE, is_writable |-> FALSE]>>
                    ELSE <<>>],
        reads |-> Len(g.trace)]

\* a facade that serves the cached user record whenever there is one
UserAccountCachedFirst(f, force, uanswers) ==
    IF f.ucache = <<>>
    THEN LET u == UserAccountPubkeyAndNonce(f)
             t == GetAccountData(uanswers)
         IN IF t.kind = "Ok"
            THEN [kind |-> "Ok", f |-> [u.f EXCEPT !.ucache = <<t.val>>],
                  user |-> <<t.val>>, reads |-> Len(t.trace)]
            ELSE [kind |-> "Panic", f |-> u.f, user |-> <<>>,
                  reads |-> Len(t.trace)]
    ELSE [kind |-> "Ok", f |-> f, user |-> f.ucache, reads |-> 0]

\* user_account(force): the read is unwrapped, so a failed read aborts
UserAccount(f, force, uanswers) ==
    IF force \/ f.ucache = <<>>
    THEN LET u == UserAccountPubkeyAndNonce(f)
             t == GetAccountData(uanswers)
         IN IF t.kind = "Ok"
            THEN [kind |-> "Ok", f |-> [u.f EXCEPT !.ucache = <<t.val>>],
                  user |-> <<t.val>>, reads |-> Len(t.trace)]
            ELSE [kind |-> "Panic", f |-> u.f, user |-> <<>>,
                  reads |-> Len(t.trace)]
    ELSE [kind |-> "Ok", f |-> f, user |-> f.ucache, reads |-> 0]

\* deposit_collateral_ix(amount, collateral_acc_pub, user_pos_acc_pub)
DepositCollateralIx(f, amount, collateral, positions, answers, uanswers) ==
    LET g == GetData(FALSE, f.data, answers)
        f1 == [f EXCEPT !.data = g.data]
    IN
    IF g.kind # "Ok"
    THEN [kind |-> g.kind, f |-> f1, ix |-> NoIx, reads |-> Len(g.trace)]
    ELSE
    LET state == StateRecord(g.ret)
        ua == IF positions # <<>>
              THEN [kind |-> "Ok", f |-> f1, user |-> <<>>, reads |-> 0]
              ELSE UserAccount(f1, FALSE, uanswers)
    IN
    IF ua.kind # "Ok"
    THEN [kind |-> ua.kind, f |-> ua.f, ix |-> NoIx,
          reads |-> Len(g.trace) + ua.reads]
    ELSE
    LET pos == IF positions # <<>> THEN positions[1] ELSE ua.user[1].positions
        u == UserAccountPubkeyAndNonce(ua.f)
    IN [kind |-> "Ok",
        f |-> u.f,
        ix |-> [program_id |-> ProgramId,
                name |-> "DepositCollateral",
                args |-> [amount |-> amount],
                accounts |-> [state |-> StatePubkey,
                              user |-> u.pubkey,
                              authority |-> WalletPubkey,
                              collateral_vault |-> state.collateral_vault,
                              user_collateral_account |-> collateral,
                              token_program |-> TokenProgramId,
                              markets |-> MarketsPubkey,
                              user_positions |-> pos,
                              funding_payment_history |->
                                  state.funding_payment_history,
                              deposit_history |-> state.deposit_history],
                remaining |-> <<>>],
        reads |-> Len(g.trace) + ua.reads]

(***************************************************************************)
(* The clearing house program on the ledger, as far as the facade's        *)
(* submissions depend on it.                                               *)
(***************************************************************************)
\* one operation applied to the ledger state L = [user, tokens, ok]
LedgerApplyIx(ix, signers, L) ==
    IF ~L.ok THEN L
    ELSE IF ix.name = "InitializeUser"
    THEN IF /\ L.user = <<>>
            /\ \E i \in 1 .. Len(signers) : signers[i] = ix.accounts.user_positions
         THEN [L EXCEPT !.user = <<[authority |-> ix.accounts.authority,
                                    positions |-> ix.accounts.user_positions,
                                    collateral |-> 0]>>]
         ELSE [L EXCEPT !.ok = FALSE]
    ELSE IF ix.name = "DepositCollateral"
    THEN IF /\ L.user # <<>>
            /\ L.user[1].positions = ix.accounts.user_positions
            /\ L.tokens >= ix.args.amount
         THEN [L EXCEPT !.user = <<[L.user[1] EXCEPT
                                       !.collateral = @ + ix.args.amount]>>,
                        !.tokens = @ - ix.args.amount]
         ELSE [L EXCEPT !.ok = FALSE]
    ELSE IF ix.name = "WithdrawCollateral"
    THEN IF /\ L.user # <<>>
            /\ L.user[1].positions = ix.accounts.user_positions
            /\ L.user[1].collateral >= ix.args.amount
         THEN [L EXCEPT !.user = <<[L.user[1] EXCEPT
                                       !.collateral = @ - ix.args.amount]>>,
                        !.tokens = @ + ix.args.amount]
         ELSE [L EXCEPT !.ok = FALSE]
    ELSE IF ix.name \in {"OpenPosition", "ClosePosition"}
    THEN IF /\ L.user # <<>>
            /\ L.user[1].positions = ix.accounts.user_positions
            /\ ix.args.market_index < MarketSlots
         THEN L
         ELSE [L EXCEPT !.ok = FALSE]
    ELSE IF ix.name = "DeleteUser"
    THEN IF /\ L.user # <<>>
            /\ L.user[1].positions = ix.accounts.user_positions
            /\ L.user[1].authority = ix.accounts.authority
         THEN [L EXCEPT !.user = <<>>]
         ELSE [L EXCEPT !.ok = FALSE]
    ELSE IF ix.name = "CreateAccount"
    THEN IF /\ \E i \in 1 .. Len(signers) : signers[i] = ix.to_pubkey
            /\ \A a \in L.created : a.pubkey # ix.to_pubkey
         THEN [L EXCEPT !.created = @ \cup {[pubkey |-> ix.to_pubkey,
                                             space |-> ix.space]}]
         ELSE [L EXCEPT !.ok = FALSE]
    ELSE IF ix.name = "Initialize"
    THEN IF /\ L.state = <<>>
            /\ \E a \in L.created : a.pubkey = ix.accounts.markets
         THEN [L EXCEPT !.state = <<[markets |-> ix.accounts.markets]>>]
         ELSE [L EXCEPT !.ok = FALSE]
    ELSE IF ix.name = "InitializeHistory"
    THEN IF /\ L.state # <<>>
            /\ ~L.history
            /\ \A h \in DOMAIN ix.accounts \ {"admin", "state"} :
                  \E a \in L.created : a.pubkey = ix.accounts[h]
         THEN [L EXCEPT !.history = TRUE]
         ELSE [L EXCEPT !.ok = FALSE]
    ELSE IF ix.name = "InitializeMarket"
    THEN IF /\ L.state # <<>>
            /\ L.state[1].markets = ix.accounts.markets
            /\ ix.args.market_index < MarketSlots
            /\ ix.args.market_index \notin L.slots
         THEN [L EXCEPT !.slots = @ \cup {ix.args.market_index}]
         ELSE [L EXCEPT !.ok = FALSE]
    ELSE [L EXCEPT !.ok = FALSE]

\* the operations of one submission applied in order, all or nothing
RECURSIVE LedgerApply(_, _, _)
LedgerApply(ixs, signers, L) ==
    IF ixs = <<>> THEN L
    ELSE LedgerApply(Tail(ixs), signers, LedgerApplyIx(Head(ixs), signers, L))

Ledger == [user |-> userRemote, tokens |-> tokens, ok |-> TRUE]

\* what the endpoint answers to reads of the user account
UserAnswers ==
    IF userRemote = <<>>
    THEN {[i \in 1 .. RetryBound + 1 |-> ErrResp(1)]}
    ELSE SteadyAnswers([disc |-> "T", val |-> userRemote[1]])

(***************************************************************************)
(* Transaction composer and the facade's atomic actions.                   *)
(***************************************************************************)
\* a signer list that puts the wallet behind the additional signers
SignersWalletLast(additional_signers) == additional_signers \o <<WalletPubkey>>

\* send_tx's signer list: the wallet, then the additional signers as given
Signers(additional_signers) == <<WalletPubkey>> \o additional_signers

Reverse(seq) == [i \in 1 .. Len(seq) |-> seq[Len(seq) + 1 - i]]

\* a transaction that lists the operations last to first
TxOpsReversed(ixs) == Reverse(ixs)

\* the operations of the transaction new_signed_with_payer builds from ixs
TxOps(ixs) == ixs

\* a composer that signs with a hash it holds from earlier
BlockhashKept(env) == [ok |-> TRUE, hash |-> 1, net |-> <<>>]

\* get_latest_blockhash()?: one request, whose answer is the hash or an error
GetLatestBlockhash(env) ==
    [ok |-> env.hash_ok, hash |-> IF env.hash_ok THEN env.hash ELSE None,
     net |-> <<"get_latest_blockhash">>]

\* a composer that sends again when the first send fails
SendAndConfirmTwice(env) ==
    IF env.send = "confirmed"
    THEN <<"send_and_confirm_transaction">>
    ELSE <<"send_and_confirm_transaction", "send_and_confirm_transaction">>

\* send_and_confirm_transaction(&tx)?: one request
SendAndConfirm(env) == <<"send_and_confirm_transaction">>

\* a send_tx that reports success as soon as the transaction left, whatever
\* the program did with it
SendTxUnconfirmed(additional_signers, ixs, env, L) ==
    LET signers == Signers(additional_signers)
        hash == GetLatestBlockhash(env)
        tx == [fee_payer |-> WalletPubkey, signers |-> signers,
               ixs |-> TxOps(ixs), blockhash |-> hash.hash]
        applied == LedgerApply(tx.ixs, signers, L)
        net == hash.net \o SendAndConfirm(env)
    IN
    IF ~hash.ok
    THEN [kind |-> "ClientError", ledger |-> L,
          tx |-> tx @@ [sent |-> FALSE, outcome |-> "BlockhashError",
                        net |-> hash.net]]
    ELSE IF env.send = "confirmed" /\ applied.ok
    THEN [kind |-> "Ok", ledger |-> applied,
          tx |-> tx @@ [sent |-> TRUE, outcome |-> "Confirmed", net |-> net]]
    ELSE [kind |-> "Ok", ledger |-> L,
          tx |-> tx @@ [sent |-> TRUE, outcome |-> "Rejected", net |-> net]]

\* ClearingHouse::send_tx: the wallet first among the signers and fee payer,
\* a blockhash fetched, the transaction sent once.  env is what the endpoint
\* does during the call: whether the blockhash fetch succeeds and with which
\* hash, and whether the send gets through to the program.  net lists the
\* requests made to the endpoint, in order.
SendTx(additional_signers, ixs, env, L) ==
    LET signers == Signers(additional_signers)
        hash == GetLatestBlockhash(env)
        tx == [fee_payer |-> WalletPubkey, signers |-> signers,
               ixs |-> TxOps(ixs), blockhash |-> hash.hash]
        applied == LedgerApply(tx.ixs, signers, L)
    IN
    IF ~hash.ok
    THEN [kind |-> "ClientError", ledger |-> L,
          tx |-> tx @@ [sent |-> FALSE, outcome |-> "BlockhashError",
                        net |-> hash.net]]
    ELSE
    LET net == hash.net \o SendAndConfirm(env)
    IN
    IF env.send = "transport"
    THEN [kind |-> "ClientError", ledger |-> L,
          tx |-> tx @@ [sent |-> TRUE, outcome |-> "TransportError",
                        net |-> net]]
    ELSE IF env.send = "confirmed" /\ applied.ok
    THEN [kind |-> "Ok", ledger |-> applied,
          tx |-> tx @@ [sent |-> TRUE, outcome |-> "Confirmed", net |-> net]]
    ELSE [kind |-> "ClientError", ledger |-> L,
          tx |-> tx @@ [sent |-> TRUE, outcome |-> "Rejected", net |-> net]]

\* a facade that creates the account in one submission and funds it in a
\* second one
SendInitThenDepositSeparately(f, amount, collateral, answers1, answers2, env, L) ==
    LET i == InitializeUserIx(f, answers1) IN
    IF i.kind # "Ok"
    THEN [kind |-> i.kind, stage |-> "initialize_user_ix", f |-> i.f, kp |-> 0,
          user |-> i.user, submissions |-> <<>>, ledger |-> L,
          reads |-> i.reads]
    ELSE
    LET d == DepositCollateralIx(i.f, amount, collateral, <<KeyPubkey(i.kp)>>,
                                 answers2, answers2)
    IN
    IF d.kind # "Ok"
    THEN [kind |-> d.kind, stage |-> "deposit_collateral_ix", f |-> d.f,
          kp |-> i.kp, user |-> i.user, submissions |-> <<>>, ledger |-> L,
          reads |-> i.reads + d.reads]
    ELSE
    LET t1 == SendTx(<<KeyPubkey(i.kp)>>, <<i.ix>>, env, L)
        t2 == SendTx(<<>>, <<d.ix>>, env, t1.ledger)
    IN [kind |-> t2.kind, stage |-> "send_tx", f |-> d.f, kp |-> i.kp,
        user |-> i.user, submissions |-> <<t1.tx, t2.tx>>, ledger |-> t2.ledger,
        reads |-> i.reads + d.reads]

\* a facade that writes the account it expects to exist into its user cache
\* before the submission is confirmed
SendInitAndDepositOptimistic(f, amount, collateral, answers1, answers2, env, L) ==
    LET i == InitializeUserIx(f, answers1) IN
    IF i.kind # "Ok"
    THEN [kind |-> i.kind, stage |-> "initialize_user_ix", f |-> i.f, kp |-> 0,
          user |-> i.user, submissions |-> <<>>, ledger |-> L,
          reads |-> i.reads]
    ELSE
    LET d == DepositCollateralIx(i.f, amount, collateral, <<KeyPubkey(i.kp)>>,
                                 answers2, answers2)
    IN
    IF d.kind # "Ok"
    THEN [kind |-> d.kind, stage |-> "deposit_collateral_ix", f |-> d.f,
          kp |-> i.kp, user |-> i.user, submissions |-> <<>>, ledger |-> L,
          reads |-> i.reads + d.reads]
    ELSE
    LET t == SendTx(<<KeyPubkey(i.kp)>>, <<i.ix, d.ix>>, env, L)
        expected == [authority |-> WalletPubkey, positions |-> KeyPubkey(i.kp),
                     collateral |-> amount]
    IN [kind |-> t.kind, stage |-> "send_tx",
        f |-> [d.f EXCEPT !.ucache = <<expected>>], kp |-> i.kp,
        user |-> i.user, submissions |-> <<t.tx>>, ledger |-> t.ledger,
        reads |-> i.reads + d.reads]

\* send_initialize_user_account_and_deposit_collateral
SendInitializeUserAccountAndDepositCollateral(f, amount, collateral, answers1, answers2, env, L) ==
    LET i == InitializeUserIx(f, answers1) IN
    IF i.kind # "Ok"
    THEN [kind |-> i.kind, stage |-> "initialize_user_ix", f |-> i.f, kp |-> 0,
          user |-> i.user, submissions |-> <<>>, ledger |-> L,
          reads |-> i.reads]
    ELSE
    LET d == DepositCollateralIx(i.f, amount, collateral, <<KeyPubkey(i.kp)>>,
                                 answers2, answers2)
    IN
    IF d.kind # "Ok"
    THEN [kind |-> d.kind, stage |-> "deposit_collateral_ix", f |-> d.f,
          kp |-> i.kp, user |-> i.user, submissions |-> <<>>, ledger |-> L,
          reads |-> i.reads + d.reads]
    ELSE
    LET t == SendTx(<<KeyPubkey(i.kp)>>, <<i.ix, d.ix>>, env, L)
    IN [kind |-> t.kind, stage |-> "send_tx", f |-> d.f, kp |-> i.kp,
        user |-> i.user, submissions |-> <<t.tx>>, ledger |-> t.ledger,
        reads |-> i.reads + d.reads]

\* send_intialize_user_account
SendIntializeUserAccount(f, answers1, env, L) ==
    LET i == InitializeUserIx(f, answers1) IN
    IF i.kind # "Ok"
    THEN [kind |-> i.kind, stage |-> "initialize_user_ix", f |-> i.f, kp |-> 0,
          user |-> i.user, submissions |-> <<>>, ledger |-> L,
          reads |-> i.reads]
    ELSE
    LET t == SendTx(<<KeyPubkey(i.kp)>>, <<i.ix>>, env, L)
    IN [kind |-> t.kind, stage |-> "send_tx", f |-> i.f, kp |-> i.kp,
        user |-> i.user, submissions |-> <<t.tx>>, ledger |-> t.ledger,
        reads |-> i.reads]

\* the DeleteUser operation for the user record `user` read from the ledger
DeleteUserIx(user_pubkey, user) ==
    [program_id |-> ProgramId,
     name |-> "DeleteUser",
     args |-> <<>>,
     accounts |-> [user |-> user_pubkey,
                   user_positions |-> user.positions,
                   authority |-> WalletPubkey],
     remaining |-> <<>>]

\* a send_delete_user that empties the user-record cache once the deletion
\* is confirmed
SendDeleteUserInvalidating(f, uanswers, env, L) ==
    LET u == UserAccountPubkeyAndNonce(f)
        t == GetAccountData(uanswers)
    IN
    IF t.kind # "Ok"
    THEN [kind |-> t.kind, stage |-> "user", f |-> u.f, kp |-> 0,
          user |-> NoPubkey, submissions |-> <<>>, ledger |-> L,
          reads |-> Len(t.trace)]
    ELSE
    LET s == SendTx(<<>>, <<DeleteUserIx(u.pubkey, t.val)>>, env, L)
    IN [kind |-> s.kind, stage |-> "send_tx",
        f |-> IF s.kind = "Ok" THEN [u.f EXCEPT !.ucache = <<>>] ELSE u.f,
        kp |-> 0, user |-> NoPubkey, submissions |-> <<s.tx>>,
        ledger |-> s.ledger, reads |-> Len(t.trace)]

\* send_delete_user(): the user record is read from the ledger with `?`, not
\* through user_account, and the operation built from it is sent alone
SendDeleteUser(f, uanswers, env, L) ==
    LET u == UserAccountPubkeyAndNonce(f)
        t == GetAccountData(uanswers)
    IN
    IF t.kind # "Ok"
    THEN [kind |-> t.kind, stage |-> "user", f |-> u.f, kp |-> 0,
          user |-> NoPubkey, submissions |-> <<>>, ledger |-> L,
          reads |-> Len(t.trace)]
    ELSE
    LET s == SendTx(<<>>, <<DeleteUserIx(u.pubkey, t.val)>>, env, L)
    IN [kind |-> s.kind, stage |-> "send_tx", f |-> u.f, kp |-> 0,
        user |-> NoPubkey, submissions |-> <<s.tx>>, ledger |-> s.ledger,
        reads |-> Len(t.trace)]

\* send_deposit_collateral(amount, collateral_account_pubkey, positions)
SendDepositCollateral(f, amount, collateral, positions, answers1, uanswers, env, L) ==
    LET d == DepositCollateralIx(f, amount, collateral, positions, answers1,
                                 uanswers)
    IN
    IF d.kind # "Ok"
    THEN [kind |-> d.kind, stage |-> "deposit_collateral_ix", f |-> d.f,
          kp |-> 0, user |-> NoPubkey, submissions |-> <<>>, ledger |-> L,
          reads |-> d.reads]
    ELSE
    LET t == SendTx(<<>>, <<d.ix>>, env, L)
    IN [kind |-> t.kind, stage |-> "send_tx", f |-> d.f, kp |-> 0,
        user |-> NoPubkey, submissions |-> <<t.tx>>, ledger |-> t.ledger,
        reads |-> d.reads]

\* a call that stopped before send_tx
Stopped(kind, stage, f, reads, L) ==
    [kind |-> kind, stage |-> stage, f |-> f, kp |-> 0, user |-> NoPubkey,
     submissions |-> <<>>, ledger |-> L, reads |-> reads]

\* a call that reached send_tx with one operation
Sent(f, ix, reads, env, L) ==
    LET t == SendTx(<<>>, <<ix>>, env, L)
    IN [kind |-> t.kind, stage |-> "send_tx", f |-> f, kp |-> 0,
        user |-> NoPubkey, submissions |-> <<t.tx>>, ledger |-> t.ledger,
        reads |-> reads]

\* send_withdraw_collateral(amount, collateral_account_pubkey); ep holds the
\* endpoint's answers to reads of the State, Markets and user accounts
SendWithdrawCollateral(f, amount, collateral, ep, env, L) ==
    LET u == UserAccountPubkeyAndNonce(f)
        ua == UserAccount(u.f, FALSE, ep.user)
    IN
    IF ua.kind # "Ok"
    THEN Stopped(ua.kind, "user_account", ua.f, ua.reads, L)
    ELSE
    LET g == GetData(FALSE, ua.f.data, ep.state)
        f1 == [ua.f EXCEPT !.data = g.data]
        reads == ua.reads + Len(g.trace)
    IN
    IF g.kind # "Ok"
    THEN Stopped(g.kind, "state", f1, reads, L)
    ELSE
    LET state == StateRecord(g.ret)
        ix == [program_id |-> ProgramId,
               name |-> "WithdrawCollateral",
               args |-> [amount |-> amount],
               accounts |->
                   [state |-> StatePubkey,
                    user |-> u.pubkey,
                    authority |-> WalletPubkey,
                    collateral_vault |-> state.collateral_vault,
                    collateral_vault_authority |->
                        state.collateral_vault_authority,
                    insurance_vault |-> state.insurance_vault,
                    insurance_vault_authority |->
                        state.insurance_vault_authority,
                    user_collateral_account |-> collateral,
                    token_program |-> TokenProgramId,
                    markets |-> state.markets,
                    user_positions |-> ua.user[1].positions,
                    funding_payment_history |-> state.funding_payment_history,
                    deposit_history |-> state.deposit_history],
               remaining |-> <<>>]
    IN Sent(f1, ix, reads, env, L)

\* optional accounts that set the referrer flag without listing the referrer
OptionalAccountsFlagOnly(discount_token, referrer) ==
    [flags |-> [discount_token |-> discount_token # <<>>, referrer |-> TRUE],
     remaining |->
        IF discount_token # <<>>
        THEN <<[pubkey |-> discount_token[1], is_signer |-> FALSE,
                is_writable |-> FALSE]>>
        ELSE <<>>]

\* ManagePositionOptionalAccounts and remaining_accounts, as send_open_position
\* and send_close_position fill them: each Some(pubkey) sets its flag and
\* pushes its account, the discount token first
OptionalAccounts(discount_token, referrer) ==
    [flags |-> [discount_token |-> discount_token # <<>>,
                referrer |-> referrer # <<>>],
     remaining |->
        (IF discount_token # <<>>
         THEN <<[pubkey |-> discount_token[1], is_signer |-> FALSE,
                 is_writable |-> FALSE]>>
         ELSE <<>>)
        \o (IF referrer # <<>>
            THEN <<[pubkey |-> referrer[1], is_signer |-> FALSE,
                    is_writable |-> TRUE]>>
            ELSE <<>>)]

\* markets[Markets::index_from_u64(market_index)].amm.oracle: indexing the
\* fixed-size slot array past its end aborts
MarketOracle(markets, market_index) ==
    LET i == IndexFromU64(market_index) IN
    IF i < MarketSlots
    THEN [kind |-> "Ok", oracle |-> markets[i].oracle]
    ELSE [kind |-> "Panic", oracle |-> NoPubkey]

\* the accounts of OpenPosition and of ClosePosition
PositionAccounts(user, state, positions, oracle) ==
    [state |-> StatePubkey,
     user |-> user,
     authority |-> WalletPubkey,
     markets |-> state.markets,
     user_positions |-> positions,
     trade_history |-> state.trade_history,
     funding_payment_history |-> state.funding_payment_history,
     funding_rate_history |-> state.funding_rate_history,
     oracle |-> oracle]

\* send_open_position
SendOpenPosition(f, direction, quote_asset_amount, market_index, limit_price, discount_token, referrer, ep, env, L) ==
    LET u == UserAccountPubkeyAndNonce(f)
        ua == UserAccount(u.f, FALSE, ep.user)
    IN
    IF ua.kind # "Ok"
    THEN Stopped(ua.kind, "user_account", ua.f, ua.reads, L)
    ELSE
    LET price == IF limit_price = <<>> THEN 0 ELSE limit_price[1]
        optional == OptionalAccounts(discount_token, referrer)
        m == GetData(FALSE, ua.f.mdata, ep.markets)
        f1 == [ua.f EXCEPT !.mdata = m.data]
        reads1 == ua.reads + Len(m.trace)
    IN
    IF m.kind # "Ok"
    THEN Stopped(m.kind, "markets", f1, reads1, L)
    ELSE
    LET o == MarketOracle(MarketsRecord(m.ret), market_index) IN
    IF o.kind # "Ok"
    THEN Stopped(o.kind, "market_index", f1, reads1, L)
    ELSE
    LET g == GetData(FALSE, f1.data, ep.state)
        f2 == [f1 EXCEPT !.data = g.data]
        reads2 == reads1 + Len(g.trace)
    IN
    IF g.kind # "Ok"
    THEN Stopped(g.kind, "state", f2, reads2, L)
    ELSE
    LET ix == [program_id |-> ProgramId,
               name |-> "OpenPosition",
               args |-> [direction |-> direction,
                         quote_asset_amount |-> quote_asset_amount,
                         market_index |-> market_index,
                         limit_price |-> price,
                         optional_accounts |-> optional.flags],
               accounts |-> PositionAccounts(u.pubkey, StateRecord(g.ret),
                                             ua.user[1].positions, o.oracle),
               remaining |-> optional.remaining]
    IN Sent(f2, ix, reads2, env, L)

\* send_close_position
SendClosePosition(f, market_index, discount_token, referrer, ep, env, L) ==
    LET u == UserAccountPubkeyAndNonce(f)
        ua == UserAccount(u.f, FALSE, ep.user)
    IN
    IF ua.kind # "Ok"
    THEN Stopped(ua.kind, "user_account", ua.f, ua.reads, L)
    ELSE
    LET m == GetData(FALSE, ua.f.mdata, ep.markets)
        f1 == [ua.f EXCEPT !.mdata = m.data]
        reads1 == ua.reads + Len(m.trace)
    IN
    IF m.kind # "Ok"
    THEN Stopped(m.kind, "markets", f1, reads1, L)
    ELSE
    LET o == MarketOracle(MarketsRecord(m.ret), market_index) IN
    IF o.kind # "Ok"
    THEN Stopped(o.kind, "market_index", f1, reads1, L)
    ELSE
    LET optional == OptionalAccounts(discount_token, referrer)
        g == GetData(FALSE, f1.data, ep.state)
        f2 == [f1 EXCEPT !.data = g.data]
        reads2 == reads1 + Len(g.trace)
    IN
    IF g.kind # "Ok"
    THEN Stopped(g.kind, "state", f2, reads2, L)
    ELSE
    LET ix == [program_id |-> ProgramId,
               name |-> "ClosePosition",
               args |-> [market_index |-> market_index,
                         optional_accounts |-> optional.flags],
               accounts |-> PositionAccounts(u.pubkey, StateRecord(g.ret),
                                             ua.user[1].positions, o.oracle),
               remaining |-> optional.remaining]
    IN Sent(f2, ix, reads2, env, L)

(***************************************************************************)
(* The admin: ClearingHouseAdmin.                                          *)
(***************************************************************************)
MARKETS_SIZE == 33416
FUNDING_RATE_HISTORY_SIZE == 114704
FUNDING_PAYMENT_HISTORY_SIZE == 188432
TRADE_HISTORY_SIZE == 247824
LIQUIDATION_HISTORY_SIZE == 254992
DEPOSIT_HISTORY_SIZE == 132112
CURVE_HISTORY_SIZE == 8720

UsdcMint == <<"usdc_mint">>
OraclePubkey == <<"oracle">>

\* the ledger before any admin call: no State account, no account created
NoHouse == [state |-> <<>>, created |-> {}, history |-> FALSE, slots |-> {}]

AdminLedger == house @@ [ok |-> TRUE]

\* an admin that reserves the size of Markets for whatever it creates
CreateAccountMarketsSized(space, signer) ==
    [name |-> "CreateAccount", from_pubkey |-> WalletPubkey,
     to_pubkey |-> signer, lamports |-> MARKETS_SIZE, space |-> MARKETS_SIZE,
     owner |-> ProgramId]

\* create_account_ix(space, signer), the rent request answered; lamports is
\* the endpoint's rent-exempt minimum for `space`, written as the space
CreateAccountIx(space, signer) ==
    [name |-> "CreateAccount", from_pubkey |-> WalletPubkey,
     to_pubkey |-> signer, lamports |-> space, space |-> space,
     owner |-> ProgramId]

\* the keypairs send_initialize_clearing_house generates, in the order of its
\* Keypair::new() calls, k keypairs having been generated before
AdminKeypairs(k) ==
    [markets |-> KeyPubkey(k + 1),
     deposit_history |-> KeyPubkey(k + 2),
     funding_rate_history |-> KeyPubkey(k + 3),
     funding_payment_history |-> KeyPubkey(k + 4),
     trade_history |-> KeyPubkey(k + 5),
     liquidation_history |-> KeyPubkey(k + 6),
     curve_history |-> KeyPubkey(k + 7)]

\* an admin that hands over the vault itself as its authority
VaultIsAuthority(vault_pub) == [pubkey |-> vault_pub, nonce |-> 255]

\* find_program_address(&[&vault_pub.to_bytes()], &program_id)
VaultAuthority(vault_pub) == FindProgramAddress(vault_pub, ProgramId)

\* the Initialize operation of send_initialize_clearing_house
InitializeIx(usdc_mint, admin_controls_prices, markets) ==
    LET collateral_vault == FindProgramAddress(<<"collateral_vault">>, ProgramId)
        collateral_vault_authority == VaultAuthority(collateral_vault.pubkey)
        insurance_vault == FindProgramAddress(<<"insurance_vault">>, ProgramId)
        insurance_vault_authority == VaultAuthority(insurance_vault.pubkey)
        clearing_house_state == FindProgramAddress(<<"clearing_house">>, ProgramId)
    IN [program_id |-> ProgramId,
        name |-> "Initialize",
        args |-> [_clearing_house_nonce |-> clearing_house_state.nonce,
                  _collateral_vault_nonce |-> collateral_vault.nonce,
                  _insurance_vault_nonce |-> insurance_vault.nonce,
                  admin_controls_prices |-> admin_controls_prices],
        accounts |-> [admin |-> WalletPubkey,
                      state |-> clearing_house_state.pubkey,
                      collateral_mint |-> usdc_mint,
                      collateral_vault |-> collateral_vault.pubkey,
                      collateral_vault_authority |->
                          collateral_vault_authority.pubkey,
                      insurance_vault |-> insurance_vault.pubkey,
                      insurance_vault_authority |->
                          insurance_vault_authority.pubkey,
                      markets |-> markets,
                      rent |-> RentId,
                      system_program |-> SystemProgramId,
                      token_program |-> TokenProgramId],
        remaining |-> <<>>]

\* the InitializeHistory operation of send_initialize_clearing_house
InitializeHistoryIx(kp) ==
    [program_id |-> ProgramId,
     name |-> "InitializeHistory",
     args |-> <<>>,
     accounts |-> [admin |-> WalletPubkey,
                   state |-> StatePubkey,
                   funding_payment_history |-> kp.funding_payment_history,
                   trade_history |-> kp.trade_history,
                   liquidation_history |-> kp.liquidation_history,
                   deposit_history |-> kp.deposit_history,
                   funding_rate_history |-> kp.funding_rate_history,
                   curve_history |-> kp.curve_history],
     remaining |-> <<>>]

\* the operations of the first and of the second submission
InitializeOps(usdc_mint, admin_controls_prices, kp) ==
    <<CreateAccountIx(MARKETS_SIZE, kp.markets),
      InitializeIx(usdc_mint, admin_controls_prices, kp.markets)>>

InitializeHistoryOps(kp) ==
    <<CreateAccountIx(FUNDING_RATE_HISTORY_SIZE, kp.funding_rate_history),
      CreateAccountIx(FUNDING_PAYMENT_HISTORY_SIZE, kp.funding_payment_history),
      CreateAccountIx(TRADE_HISTORY_SIZE, kp.trade_history),
      CreateAccountIx(LIQUIDATION_HISTORY_SIZE, kp.liquidation_history),
      CreateAccountIx(DEPOSIT_HISTORY_SIZE, kp.deposit_history),
      CreateAccountIx(CURVE_HISTORY_SIZE, kp.curve_history),
      InitializeHistoryIx(kp)>>

\* an admin that sends the first submission signed by the wallet alone
InitializeSignedByWalletOnly(kp) == <<>>

\* the additional signers of the first and of the second submission
InitializeSigners(kp) == <<kp.markets>>

InitializeHistorySigners(kp) ==
    <<kp.deposit_history, kp.funding_payment_history, kp.trade_history,
      kp.liquidation_history, kp.funding_rate_history, kp.curve_history>>

\* an admin that goes ahead whatever the pre-check read answers
PreCheckOmitted(read) == "Ok"

\* the pre-check of send_initialize_clearing_house: get_account on the State
\* address answers "found", "not_found" (RpcError::ForUser) or "error"
PreCheck(read) ==
    CASE read = "found" -> "AccountCannotBeInitialized"
      [] read = "not_found" -> "Ok"
      [] OTHER -> "ClientError"

\* what an admin call returns: k is the number of keypairs generated so far
AdminResult(kind, stage, k, generated, submissions, L) ==
    [kind |-> kind, stage |-> stage, keys |-> k, generated |-> generated,
     submissions |-> submissions, ledger |-> L]

\* send_initialize_clearing_house(usdc_mint, admin_controls_prices).  env is
\* what the endpoint does during the call: its answer to the pre-check, to
\* the rent requests of create_account_ix before each submission (unwrapped),
\* and to the two send_tx calls
SendInitializeClearingHouse(k, usdc_mint, admin_controls_prices, env, L) ==
    LET kp == AdminKeypairs(k)
        generated == {kp[n] : n \in DOMAIN kp}
        t1 == SendTx(InitializeSigners(kp),
                     InitializeOps(usdc_mint, admin_controls_prices, kp),
                     env.tx1, L)
        t2 == SendTx(InitializeHistorySigners(kp), InitializeHistoryOps(kp),
                     env.tx2, t1.ledger)
    IN
    IF PreCheck(env.read) # "Ok"
    THEN AdminResult(PreCheck(env.read), "pre_check", k, {}, <<>>, L)
    ELSE IF ~env.rent1
    THEN AdminResult("Panic", "create_account_ix", k + 7, generated, <<>>, L)
    ELSE IF t1.kind # "Ok"
    THEN AdminResult(t1.kind, "initialize", k + 7, generated, <<t1.tx>>, L)
    ELSE IF ~env.rent2
    THEN AdminResult("Panic", "create_account_ix", k + 7, generated,
                     <<t1.tx>>, t1.ledger)
    ELSE AdminResult(t2.kind, "initialize_history", k + 7, generated,
                     <<t1.tx, t2.tx>>, t2.ledger)

\* the InitializeMarket operation; the reserves, periodicity and peg are
\* passed through unchanged and fixed here
InitializeMarketIx(market_index, price_oracle, markets) ==
    [program_id |-> ProgramId,
     name |-> "InitializeMarket",
     args |-> [market_index |-> market_index,
               amm_base_asset_reserve |-> 1, amm_quote_asset_reserve |-> 1,
               amm_periodicity |-> 1, amm_peg_multiplier |-> 1],
     accounts |-> [admin |-> WalletPubkey, state |-> StatePubkey,
                   markets |-> markets, oracle |-> price_oracle],
     remaining |-> <<>>]

\* send_initialize_clearing_market(market_index, price_oracle, ..): State and
\* Markets are read from the ledger, each with `?`; the slot is indexed
\* without a bounds check
SendInitializeClearingMarket(k, market_index, price_oracle, ep, env, L) ==
    LET state == GetAccountData(ep.state)
        markets == GetAccountData(ep.markets)
        ix == InitializeMarketIx(market_index, price_oracle, L.state[1].markets)
        t == SendTx(<<>>, <<ix>>, env, L)
    IN
    IF state.kind # "Ok"
    THEN AdminResult(state.kind, "state", k, {}, <<>>, L)
    ELSE IF markets.kind # "Ok"
    THEN AdminResult(markets.kind, "markets", k, {}, <<>>, L)
    ELSE IF IndexFromU64(market_index) >= MarketSlots
    THEN AdminResult("Panic", "index", k, {}, <<>>, L)
    ELSE IF market_index \in L.slots
    THEN AdminResult("AccountCannotBeInitialized", "initialized", k, {}, <<>>, L)
    ELSE AdminResult(t.kind, "initialize_market", k, {}, <<t.tx>>, t.ledger)

(***************************************************************************)
(* The account facade: DefaultClearingHouseAccount and its eight handles.  *)
(***************************************************************************)
\* the handles, in the order unsubscribe walks them
AccountOrder ==
    <<"state", "markets", "curve_history", "deposit_history",
      "funding_payment_history", "funding_rate_history",
      "liquidation_history", "trade_history">>

AccountNames == {AccountOrder[i] : i \in DOMAIN AccountOrder}

\* the address each handle is constructed with, state_data being the State
\* record read at construction
AccountPubkeys(state_data) ==
    [state |-> StatePubkey,
     markets |-> state_data.markets,
     trade_history |-> state_data.trade_history,
     deposit_history |-> state_data.deposit_history,
     funding_payment_history |-> state_data.funding_payment_history,
     funding_rate_history |-> state_data.funding_payment_history,
     curve_history |-> state_data.curve_history,
     liquidation_history |-> state_data.liquidation_history]

\* DefaultClearingHouseAccount::new: the State account is read and the read
\* unwrapped, then the eight handles are constructed, none subscribed
NewAccounts(answers) ==
    LET t == GetAccountData(answers) IN
    IF t.kind = "Ok"
    THEN [kind |-> "Ok", state_data |-> t.val,
          pubkeys |-> AccountPubkeys(StateRecord(t.val)),
          reads |-> Len(t.trace)]
    ELSE [kind |-> "Panic", state_data |-> None, pubkeys |-> <<>>,
          reads |-> Len(t.trace)]

\* the handle each arm of subscribe's match acts on, by consumer variant
ConsumerHandle(variant) ==
    CASE variant = "StateConsumer" -> "state"
      [] variant = "MarketsConsumer" -> "markets"
      [] variant = "TradeHistoryConsumer" -> "trade_history"
      [] variant = "DepositHistoryConsumer" -> "deposit_history"
      [] variant = "FundingPaymentHistoryConsumer" -> "funding_payment_history"
      [] variant = "FundingRateHistoryConsumer" -> "funding_rate_history"
      [] variant = "CurveHistoryConsumer" -> "curve_history"
      [] variant = "LiquidationHistoryConsumer" -> "liquidation_history"

AccountConsumerVariants ==
    {"StateConsumer", "MarketsConsumer", "TradeHistoryConsumer",
     "DepositHistoryConsumer", "FundingPaymentHistoryConsumer",
     "FundingRateHistoryConsumer", "CurveHistoryConsumer",
     "LiquidationHistoryConsumer"}

\* a facade whose subscribe opens a channel whether or not the handle is
\* subscribed already
FacadeSubscribeAlways(m, consumer, opens) ==
    LET h == ConsumerHandle(consumer.variant) IN
    IF opens
    THEN [kind |-> "Ok", markers |-> [m EXCEPT ![h] = TRUE], handle |-> h,
          opened |-> 1, registered |-> consumer.f]
    ELSE [kind |-> "Panic", markers |-> m, handle |-> h,
          opened |-> 0, registered |-> 0]

\* DefaultClearingHouseAccount::subscribe(consumer) on a facade whose handles
\* have the markers m: the handle of the consumer's variant is subscribed
\* with the consumer's function f unless it is subscribed already, and the
\* result unwrapped.  opens is whether the endpoint lets the channel open;
\* opened counts the channels the call opened and registered is the function
\* it handed to a receiver thread (None when it handed over none)
FacadeSubscribe(m, consumer, opens) ==
    LET h == ConsumerHandle(consumer.variant) IN
    IF m[h]
    THEN [kind |-> "Ok", markers |-> m, handle |-> h,
          opened |-> 0, registered |-> None]
    ELSE IF opens
    THEN [kind |-> "Ok", markers |-> [m EXCEPT ![h] = TRUE], handle |-> h,
          opened |-> 1, registered |-> consumer.f]
    ELSE [kind |-> "Panic", markers |-> m, handle |-> h,
          opened |-> 0, registered |-> None]

\* retry_unsub(a, 2): the second argument of every call in unsubscribe
UnsubRetries == 2

\* what one DriftAccount::unsubscribe() does on a handle whose marker is sub
\* when the server's answer to send_unsubscribe is `accepted`
UnsubscribeKind(sub, accepted) ==
    IF ~sub THEN "Ok"
    ELSE IF accepted THEN "Panic"
    ELSE "PubsubClientError"

\* a handle that clears its marker when it sends the request, before the
\* server's answer is known
MarkerClearedOnRequest(sub, accepted) == FALSE

\* is_subscribed() after one unsubscribe() of a handle for which it was sub:
\* the only write to the marker is the replace_with inside and_then, which a
\* failed send_unsubscribe skips and which aborts after an accepted one
MarkerAfterUnsubscribe(sub, accepted) == sub

\* the loop of retry_unsub from its m-th iteration: answers[k] is the server's
\* answer to the k-th send_unsubscribe; sub is the handle's marker after the
\* loop
RECURSIVE RetryUnsubLoop(_, _, _, _)
RetryUnsubLoop(sub, answers, n, m) ==
    IF m > n THEN [kind |-> "Failed", attempts |-> m, sub |-> sub]
    ELSE LET kind == UnsubscribeKind(sub, answers[m + 1])
             after == MarkerAfterUnsubscribe(sub, answers[m + 1])
         IN
         IF kind = "PubsubClientError"
         THEN RetryUnsubLoop(after, answers, n, m + 1)
         ELSE [kind |-> kind, attempts |-> m + 1, sub |-> after]

RetryUnsub(sub, answers, n) == RetryUnsubLoop(sub, answers, n, 0)

\* DefaultClearingHouseAccount::unsubscribe from its i-th handle on: the
\* attempts made on each handle, the handles reported as failed, and whether
\* the call returned
RECURSIVE FacadeUnsubscribeFrom(_, _, _, _)
FacadeUnsubscribeFrom(m, answers, i, acc) ==
    IF i > Len(AccountOrder) THEN [acc EXCEPT !.kind = "Ok"]
    ELSE LET h == AccountOrder[i]
             r == RetryUnsub(m[h], answers[h], UnsubRetries)
             next == [acc EXCEPT !.attempts[h] = r.attempts,
                                 !.markers[h] = r.sub,
                                 !.reported = IF r.kind = "Failed"
                                              THEN @ \cup {h} ELSE @]
         IN IF r.kind = "Panic" THEN [next EXCEPT !.kind = "Panic"]
            ELSE FacadeUnsubscribeFrom(m, answers, i + 1, next)

FacadeUnsubscribe(m, answers) ==
    FacadeUnsubscribeFrom(m, answers, 1,
                          [kind |-> "none", markers |-> m,
                           attempts |-> [h \in AccountNames |-> 0],
                           reported |-> {}])

\* the server's answers to the send_unsubscribe requests of one handle
UnsubAnswers == [1 .. UnsubRetries + 1 -> BOOLEAN]

NeverAccepted == [k \in 1 .. UnsubRetries + 1 |-> FALSE]

\* the server's answers during one facade unsubscribe: the first accepted
\* request aborts the call, so at most one handle is given acceptances
UnsubEnvs ==
    {[g \in AccountNames |-> IF g = h THEN a ELSE NeverAccepted] :
        h \in AccountNames, a \in UnsubAnswers}

\* what the endpoint can do during one send_tx; after a failed blockhash
\* fetch the rest of the answer is never asked for
Envs ==
    {e \in [hash_ok : BOOLEAN, hash : Hashes,
            send : {"confirmed", "rejected", "transport"}] :
        ~e.hash_ok => (e.hash = 1 /\ e.send = "transport")}

\* the same, for the facade calls, which look neither at the hash they are
\* given nor at why a send failed
UserEnvs == {e \in Envs : e.hash = 1 /\ (e.hash_ok => e.send # "transport")}

UInit ==
    /\ user_pubkey_and_nonce = <<>>
    /\ user_account = <<>>
    /\ keys = 0
    /\ userRemote = <<>>
    /\ tokens = MaxTokens
    /\ markets_data = None
    /\ marketsRemote = 1
    /\ markers = [h \in AccountNames |-> FALSE]
    /\ house = NoHouse
    /\ ulast = NoUserCall

Init == HInit /\ UInit

vars == <<hvars, uvars>>

\* the cache slots, and the State account, as a facade call finds them
PreState ==
    [data |-> data, markets |-> markets_data, user |-> user_account,
     remote |-> remote]

\* some populated cache slot differs from the account it was read from
Stale ==
    \/ data # None /\ data # remote.val
    \/ markets_data # None /\ markets_data # marketsRemote
    \/ user_account # <<>> /\ user_account # userRemote

\* the facade and the ledger after a call with arguments args that returned r
FacadeCallDoneWith(op, amount, args, r) ==
    /\ data' = r.f.data
    /\ markets_data' = r.f.mdata
    /\ user_pubkey_and_nonce' = r.f.memo
    /\ user_account' = r.f.ucache
    /\ keys' = r.f.keys
    /\ panicked' = (r.kind = "Panic")
    /\ userRemote' = r.ledger.user
    /\ tokens' = r.ledger.tokens
    /\ ulast' = [NoUserCall EXCEPT !.op = op, !.kind = r.kind,
                    !.stage = r.stage, !.amount = amount, !.keysBefore = keys,
                    !.keysAfter = r.f.keys, !.kp = r.kp, !.user = r.user,
                    !.submissions = r.submissions, !.reads = r.reads,
                    !.args = args, !.pre = PreState, !.stale = Stale,
                    !.ledgerChanged = (r.ledger # Ledger)]
    /\ UNCHANGED <<subscription, remote, nChannels, spawned, chanOpen, chanEnc,
                   queue, thread, consumed, last, marketsRemote, markers,
                   house>>

FacadeCallDone(op, amount, r) == FacadeCallDoneWith(op, amount, <<>>, r)

SendInitializeUserAccountAndDepositCollateralCall ==
    /\ ~panicked
    /\ keys < MaxKeys
    /\ \E amount \in Amounts, answers \in SteadyAnswers(remote), env \in UserEnvs :
          FacadeCallDone(
              "send_initialize_user_account_and_deposit_collateral", amount,
              SendInitializeUserAccountAndDepositCollateral(
                  Facade, amount, CollateralAccountPubkey, answers, answers,
                  env, Ledger))

SendIntializeUserAccountCall ==
    /\ ~panicked
    /\ keys < MaxKeys
    /\ \E answers1 \in SteadyAnswers(remote), env \in UserEnvs :
          FacadeCallDone("send_intialize_user_account", 0,
                         SendIntializeUserAccount(Facade, answers1, env, Ledger))

\* the endpoint's answers, during one call, to reads of the three accounts:
\* it is up for all of them or down for all of them
Endpoints ==
    {ep \in [state : SteadyAnswers(remote),
             markets : SteadyAnswers(MarketsBlob), user : UserAnswers] :
        /\ ep.state[1].ok = ep.markets[1].ok
        /\ userRemote # <<>> => ep.user[1].ok = ep.state[1].ok}

\* what the endpoint can do during the send_tx of a call whose reads it
\* answered (up) or not: an endpoint that is down for the reads either stops
\* the call before send_tx or, the caches being filled, is not asked at all,
\* and the call then goes as it does with the endpoint up
TradeEnvs(up) ==
    IF up THEN UserEnvs
    ELSE {e \in UserEnvs : e.hash_ok /\ e.send = "confirmed"}

SendDepositCollateralCall ==
    /\ ~panicked
    /\ \E amount \in Amounts, ep \in Endpoints, uanswers \in UserAnswers,
          positions \in {<<>>} \cup {<<KeyPubkey(i)>> : i \in 1 .. keys} :
          /\ ep.state[1].ok \/ uanswers = ep.user
          /\ \E env \in TradeEnvs(uanswers[1].ok) :
                FacadeCallDoneWith(
                               "send_deposit_collateral", amount,
                               [positions |-> positions],
                               SendDepositCollateral(
                                   Facade, amount, CollateralAccountPubkey,
                                   positions, ep.state, uanswers, env, Ledger))

\* user_account(force)
UserAccountCall ==
    /\ ~panicked
    /\ \E force \in BOOLEAN, uanswers \in UserAnswers :
          LET r == UserAccount(Facade, force, uanswers) IN
          FacadeCallDoneWith("user_account", 0, [force |-> force],
                             [kind |-> r.kind, stage |-> "user_account",
                              f |-> r.f, kp |-> 0, user |-> r.user,
                              submissions |-> <<>>, ledger |-> Ledger,
                              reads |-> r.reads])

\* a facade constructed by a wallet whose user account already exists
TradeInit ==
    /\ HInit
    /\ user_pubkey_and_nonce = <<>>
    /\ user_account = <<>>
    /\ keys = 0
    /\ userRemote = <<[authority |-> WalletPubkey, positions |-> KeyPubkey(1),
                       collateral |-> 0]>>
    /\ tokens = MaxTokens
    /\ markets_data = None
    /\ marketsRemote = 1
    /\ markers = [h \in AccountNames |-> FALSE]
    /\ house = NoHouse
    /\ ulast = NoUserCall

\* the arguments tried for send_open_position and send_close_position: every
\* combination of optional accounts on the first slot, every index without
PositionInputs ==
    {in \in [market_index : MarketIndexes,
             discount_token : {<<>>, <<DiscountTokenPubkey>>},
             referrer : {<<>>, <<ReferrerPubkey>>}] :
        \/ in.market_index = 0
        \/ in.discount_token = <<>> /\ in.referrer = <<>>}

SendWithdrawCollateralCall ==
    /\ ~panicked
    /\ \E amount \in Amounts, ep \in Endpoints :
       \E env \in TradeEnvs(ep.state[1].ok) :
          FacadeCallDoneWith("send_withdraw_collateral", amount,
                             [amount |-> amount],
                             SendWithdrawCollateral(
                                 Facade, amount, CollateralAccountPubkey, ep,
                                 env, Ledger))

SendOpenPositionCall ==
    /\ ~panicked
    /\ \E in \in PositionInputs, ep \in Endpoints :
       \E env \in TradeEnvs(ep.state[1].ok) :
          FacadeCallDoneWith("send_open_position", 0, in,
                             SendOpenPosition(
                                 Facade, "Long", 1, in.market_index, <<>>,
                                 in.discount_token, in.referrer, ep, env,
                                 Ledger))

SendClosePositionCall ==
    /\ ~panicked
    /\ \E in \in PositionInputs, ep \in Endpoints :
       \E env \in TradeEnvs(ep.state[1].ok) :
          FacadeCallDoneWith("send_close_position", 0, in,
                             SendClosePosition(
                                 Facade, in.market_index, in.discount_token,
                                 in.referrer, ep, env, Ledger))

TNext ==
    \/ SendDepositCollateralCall
    \/ SendWithdrawCollateralCall
    \/ SendOpenPositionCall
    \/ SendClosePositionCall
    \/ UserAccountCall
    \/ LedgerWrite

SpecTrade == TradeInit /\ [][TNext]_vars

\* operations a caller may hand to send_tx directly
SampleIxs ==
    {[name |-> "InitializeUser",
      accounts |-> [authority |-> WalletPubkey, user_positions |-> key]] :
        key \in {KeyPubkey(1), KeyPubkey(2)}}
    \cup {[name |-> "DepositCollateral", args |-> [amount |-> 1],
           accounts |-> [user_positions |-> KeyPubkey(1)]]}

\* no operation, one operation, or two in either order
IxLists ==
    {<<>>} \cup {<<a>> : a \in SampleIxs} \cup {<<a, b>> : a, b \in SampleIxs}

\* the accounts, besides the wallet, whose signature the operations require
RequiredSigners(ixs) ==
    {ixs[i].accounts.user_positions :
        i \in {j \in 1 .. Len(ixs) : ixs[j].name = "InitializeUser"}}

\* Transaction::sign accepts exactly the required signers, in any order
SignerLists(ixs) ==
    LET req == RequiredSigners(ixs) IN
    {q \in [1 .. Cardinality(req) -> req] :
        \A i, j \in 1 .. Cardinality(req) : q[i] = q[j] => i = j}

\* send_tx called with the caller's own operations and signers
SendTxCall ==
    /\ ~panicked
    /\ \E ixs \in IxLists, env \in Envs :
          \E additional_signers \in SignerLists(ixs) :
             LET t == SendTx(additional_signers, ixs, env, Ledger) IN
             FacadeCallDoneWith(
                 "send_tx", 0,
                 [additional_signers |-> additional_signers, ixs |-> ixs,
                  env |-> env],
                 [kind |-> t.kind, stage |-> "send_tx", f |-> Facade, kp |-> 0,
                  user |-> NoPubkey, submissions |-> <<t.tx>>,
                  ledger |-> t.ledger, reads |-> 0])

CNext == SendTxCall

SpecComposer == Init /\ [][CNext]_vars

UNext ==
    \/ SendInitializeUserAccountAndDepositCollateralCall
    \/ SendIntializeUserAccountCall
    \/ UserAccountCall
    \/ LedgerWrite

SpecUser == Init /\ [][UNext]_vars

\* send_delete_user()
SendDeleteUserCall ==
    /\ ~panicked
    /\ \E uanswers \in UserAnswers :
       \E env \in TradeEnvs(uanswers[1].ok) :
          FacadeCallDoneWith("send_delete_user", 0, <<>>,
                             SendDeleteUser(Facade, uanswers, env, Ledger))

\* a wallet that creates its user account, uses it, deletes it and creates
\* it again
LNext ==
    \/ SendIntializeUserAccountCall
    \/ SendDeleteUserCall
    \/ UserAccountCall
    \/ SendDepositCollateralCall

SpecUserLifecycle == Init /\ [][LNext]_vars

\* DefaultClearingHouseAccount::subscribe(consumer), the consumer being the
\* variant of handle h: subscribe(..).unwrap() aborts when the channel cannot
\* be opened
FacadeSubscribeCall ==
    /\ ~panicked
    /\ \E variant \in AccountConsumerVariants, f \in 1 .. MaxChannels,
          opens \in BOOLEAN :
          LET consumer == [variant |-> variant, f |-> f]
              r == FacadeSubscribe(markers, consumer, opens)
          IN
          \* the endpoint is not asked for a channel on a subscribed handle
          /\ markers[r.handle] => opens
          /\ markers' = r.markers
          /\ panicked' = (r.kind = "Panic")
          /\ ulast' = [NoUserCall EXCEPT
                          !.op = "subscribe",
                          !.kind = r.kind,
                          !.args = [consumer |-> consumer, handle |-> r.handle,
                                    opened |-> r.opened,
                                    registered |-> r.registered],
                          !.pre = markers]
    /\ UNCHANGED <<data, subscription, remote, nChannels, spawned, chanOpen,
                   chanEnc, queue, thread, consumed, last>>
    /\ UNCHANGED <<user_pubkey_and_nonce, user_account, keys, userRemote,
                   tokens, markets_data, marketsRemote, house>>

\* DefaultClearingHouseAccount::new(conn, client): a facade replaces the one
\* in use
FacadeNewCall ==
    /\ ~panicked
    /\ \E answers \in SteadyAnswers(remote) :
          LET r == NewAccounts(answers) IN
          /\ panicked' = (r.kind = "Panic")
          /\ markers' = [h \in AccountNames |-> FALSE]
          /\ ulast' = [NoUserCall EXCEPT
                          !.op = "new", !.kind = r.kind, !.reads = r.reads,
                          !.args = [state_data |-> r.state_data,
                                    pubkeys |-> r.pubkeys],
                          !.pre = markers]
    /\ UNCHANGED <<data, subscription, remote, nChannels, spawned, chanOpen,
                   chanEnc, queue, thread, consumed, last>>
    /\ UNCHANGED <<user_pubkey_and_nonce, user_account, keys, userRemote,
                   tokens, markets_data, marketsRemote, house>>

\* DefaultClearingHouseAccount::unsubscribe()
FacadeUnsubscribeCall ==
    /\ ~panicked
    /\ \E answers \in UnsubEnvs :
          LET r == FacadeUnsubscribe(markers, answers) IN
          \* a handle that is not subscribed sends no request
          /\ \A g \in AccountNames : answers[g] # NeverAccepted => markers[g]
          /\ panicked' = (r.kind = "Panic")
          /\ markers' = r.markers
          /\ ulast' = [NoUserCall EXCEPT
                          !.op = "unsubscribe", !.kind = r.kind,
                          !.args = [attempts |-> r.attempts,
                                    reported |-> r.reported],
                          !.pre = markers]
    /\ UNCHANGED <<data, subscription, remote, nChannels, spawned, chanOpen,
                   chanEnc, queue, thread, consumed, last>>
    /\ UNCHANGED <<user_pubkey_and_nonce, user_account, keys, userRemote,
                   tokens, markets_data, marketsRemote, house>>

ANext ==
    \/ FacadeNewCall
    \/ FacadeSubscribeCall
    \/ FacadeUnsubscribeCall

SpecAccounts == Init /\ [][ANext]_vars

\* what the endpoint can do during one send_initialize_clearing_house
AdminEnvs ==
    [read : IF house.state # <<>> THEN {"found", "error"}
                                  ELSE {"not_found", "error"},
     rent1 : BOOLEAN, rent2 : BOOLEAN, tx1 : UserEnvs, tx2 : UserEnvs]

\* the endpoint's answers to reads of an account that exists or does not
ReadAnswers(exists) ==
    IF exists THEN SteadyAnswers([disc |-> "T", val |-> 1])
    ELSE {[i \in 1 .. RetryBound + 1 |-> ErrResp(1)]}

\* the admin and the ledger after a call with arguments args that returned r
AdminCallDone(op, args, r) ==
    /\ keys' = r.keys
    /\ panicked' = (r.kind = "Panic")
    /\ house' = [n \in DOMAIN house |-> r.ledger[n]]
    /\ ulast' = [NoUserCall EXCEPT !.op = op, !.kind = r.kind,
                    !.stage = r.stage, !.keysBefore = keys,
                    !.keysAfter = r.keys, !.submissions = r.submissions,
                    !.args = args @@ [generated |-> r.generated],
                    !.pre = house,
                    !.ledgerChanged = (r.ledger # AdminLedger)]
    /\ UNCHANGED <<data, subscription, remote, nChannels, spawned, chanOpen,
                   chanEnc, queue, thread, consumed, last>>
    /\ UNCHANGED <<user_pubkey_and_nonce, user_account, userRemote, tokens,
                   markets_data, marketsRemote, markers>>

SendInitializeClearingHouseCall ==
    /\ ~panicked
    /\ keys < 7 * MaxKeys
    /\ \E admin_controls_prices \in BOOLEAN, env \in AdminEnvs :
          AdminCallDone("send_initialize_clearing_house",
                        [admin_controls_prices |-> admin_controls_prices,
                         read |-> env.read],
                        SendInitializeClearingHouse(
                            keys, UsdcMint, admin_controls_prices, env,
                            AdminLedger))

SendInitializeClearingMarketCall ==
    /\ ~panicked
    /\ \E market_index \in MarketIndexes, env \in UserEnvs,
          ep \in [state : ReadAnswers(house.state # <<>>),
                  markets : ReadAnswers(house.state # <<>>)] :
          AdminCallDone("send_initialize_clearing_market",
                        [market_index |-> market_index],
                        SendInitializeClearingMarket(
                            keys, market_index, OraclePubkey, ep, env,
                            AdminLedger))

DNext ==
    \/ SendInitializeClearingHouseCall
    \/ SendInitializeClearingMarketCall

SpecAdmin == Init /\ [][DNext]_vars

\* the calls that generate keypairs, made in any order by one process
KNext ==
    \/ SendIntializeUserAccountCall
    \/ SendInitializeUserAccountAndDepositCollateralCall
    \/ SendInitializeClearingHouseCall

SpecKeypairs == Init /\ [][KNext]_vars

\* DriftRpcClient::get_account_data called on its own, against every way the
\* endpoint can answer its attempts
GetAccountDataCall ==
    /\ \E answers \in Answers(remote) :
          LET t == GetAccountData(answers) IN
          last' = [NoCall EXCEPT !.op = "get_account_data", !.kind = t.kind,
                      !.err = t.err, !.ret = t.val, !.trace = t.trace,
                      !.answers = answers]
    /\ UNCHANGED <<data, subscription, remote, nChannels, spawned,
                   chanOpen, chanEnc, queue, thread, consumed, panicked>>
    /\ UNCHANGED uvars

RNext ==
    \/ GetAccountDataCall
    \/ LedgerWrite

SpecReader == Init /\ [][RNext]_vars

HNext ==
    \/ GetDataCall
    \/ Subscribe
    \/ SubscribeFail
    \/ Unsubscribe
    \/ LedgerWrite
    \/ ChannelFail
    \/ ThreadRecv
    \/ ThreadRecvErr

SpecHandle == Init /\ [][HNext]_vars

(***************************************************************************)
(* Properties of the account cache handle and of the remote reader.        *)
(***************************************************************************)
\* the remote reads a call issued
Reads(call) == Len(call.trace)

\* the index of the first attempt the endpoint answers with bytes, or 0
FirstOk(answers) ==
    IF \E i \in 1 .. Len(answers) : answers[i].ok
    THEN CHOOSE i \in 1 .. Len(answers) :
             answers[i].ok /\ \A j \in 1 .. i - 1 : ~answers[j].ok
    ELSE 0

\* C1: get_data(force = true) always issues a remote read and, when the read
\* succeeds, replaces the cached value with the record read, also when one
\* was cached; get_data(force = false) issues a remote read only when nothing
\* is cached, and otherwise returns the cached value without any read.
C1_ForceSemantics ==
    last.op = "get_data" =>
        /\ last.force => Reads(last) >= 1
        /\ (~last.force /\ last.preData = None) => Reads(last) >= 1
        /\ (Reads(last) >= 1 /\ last.kind = "Ok") =>
              /\ data = TryDeserialize(last.trace[Reads(last)]).val
              /\ last.ret = data
        /\ (~last.force /\ last.preData # None) =>
              /\ Reads(last) = 0
              /\ last.kind = "Ok"
              /\ last.ret = last.preData
              /\ data = last.preData

\* a forced get on a handle that had a record cached read a newer record and
\* replaced the cached one
C1_Witness ==
    /\ last.op = "get_data"
    /\ last.force
    /\ last.preData # None
    /\ last.kind = "Ok"
    /\ data # last.preData

\* C2: while the handle is subscribed, every pushed message that decodes
\* invokes the consumer with the record and overwrites the cached value with
\* it, and the receiver stays up to do the same for every later push.
C2_PushOverwritesCache ==
    (last.op = "recv" /\ last.kind = "delivered") =>
        /\ consumed >= 1
        /\ data = last.ret
        /\ thread[last.chan] = "running"

\* C3: a pushed message that fails to decode leaves the cached value alone
\* and does not end the subscription: the receiver keeps running for the next
\* push on the channel.
C3_BadPushKeepsReceiver ==
    (last.op = "recv" /\ last.kind = "decode_err") =>
        /\ data = last.preData
        /\ thread[last.chan] = "running"

\* C4: unsubscribe on a subscribed handle whose request the transport accepts
\* returns Ok, does not abort, and leaves the handle not subscribed.
C4_UnsubscribeClearsMarker ==
    (last.op = "unsubscribe" /\ IsSubscribed(last.preSub) /\ last.accepted) =>
        /\ last.kind = "Ok"
        /\ ~panicked
        /\ ~IsSubscribed(subscription)

\* C5: unsubscribe is idempotent: on a handle that is not subscribed it
\* returns Ok, sends nothing and changes nothing; and a call the transport did
\* not refuse leaves the handle not subscribed and alive, which is the state
\* from which the second of two calls in a row succeeds trivially.
C5_UnsubscribeIdempotent ==
    /\ (last.op = "unsubscribe" /\ ~IsSubscribed(last.preSub)) =>
          /\ last.kind = "Ok"
          /\ ~last.sent
          /\ subscription = last.preSub
    /\ (last.op = "unsubscribe" /\ last.kind # "PubsubClientError") =>
          /\ ~IsSubscribed(subscription)
          /\ ~panicked

\* the part of C5 about a handle that is not subscribed, which the code meets
C5_NotSubscribedCase ==
    /\ last.op = "unsubscribe"
    /\ ~IsSubscribed(last.preSub)
    /\ last.kind = "Ok"

\* C6: subscribe on a handle that is already subscribed is a no-op: no new
\* live channel, no new receiver thread, the existing subscription in place.
C6_SubscribeIdempotent ==
    (last.op = "subscribe" /\ IsSubscribed(last.preSub)) =>
        /\ nChannels = last.preChannels
        /\ spawned = last.preSpawned
        /\ subscription = last.preSub

\* C7: the handle is Unsubscribed or Subscribed, and a channel error (the
\* receiver's recv failing) on the channel of a Subscribed handle moves the
\* handle back to Unsubscribed.
C7_ChannelErrorUnsubscribes ==
    /\ subscription \in {None} \cup Channels
    /\ (last.op = "recv_err" /\ last.preSub = last.chan) =>
          ~IsSubscribed(subscription)

\* C8: get_account_data issues at most 3 remote reads per call, stops at the
\* first that succeeds, retries every failure short of the third, and when
\* all 3 fail returns the transport error of the third.
C8_BoundedRetry ==
    last.op = "get_account_data" =>
        /\ Reads(last) >= 1
        /\ Reads(last) <= 3
        /\ \A i \in 1 .. Reads(last) : last.trace[i] = last.answers[i]
        /\ \A i \in 1 .. Reads(last) - 1 : ~last.trace[i].ok
        /\ ~last.trace[Reads(last)].ok =>
              /\ Reads(last) = 3
              /\ last.kind = "ClientError"
              /\ last.err = last.answers[3].err

\* three attempts failed, the first and the third with different errors
C8_Witness ==
    /\ last.op = "get_account_data"
    /\ last.kind = "ClientError"
    /\ Reads(last) = 3
    /\ last.answers[1].err # last.answers[3].err

\* C9: when the bytes are fetched but do not decode, no further remote read
\* is issued after the successful fetch and the call returns a
\* deserialization error, not a value.
C9_DecodeFailureNotRetried ==
    (/\ last.op = "get_account_data"
     /\ FirstOk(last.answers) \in 1 .. 3
     /\ ~TryDeserialize(last.answers[FirstOk(last.answers)]).ok) =>
        /\ Reads(last) = FirstOk(last.answers)
        /\ last.kind = "AccountDeserializationError"
        /\ last.ret = 0

\* the second attempt fetched bytes of the wrong type and the call ended there
C9_Witness ==
    /\ last.op = "get_account_data"
    /\ last.kind = "AccountDeserializationError"
    /\ Reads(last) = 2
    /\ \E i \in 3 .. Len(last.answers) : last.answers[i].ok

\* C10: send_initialize_user_account_and_deposit_collateral hands the composer
\* exactly one submission, holding the initialise operation and then the
\* deposit operation; the positions key is generated once, and its address is
\* the user_positions account of both operations and is among the signers.
\* When building either operation fails, nothing is submitted.
C10_OneSubmissionInitThenDeposit ==
    ulast.op = "send_initialize_user_account_and_deposit_collateral" =>
        LET subs == ulast.submissions
            key == KeyPubkey(ulast.keysAfter)
        IN
        /\ ulast.keysAfter - ulast.keysBefore <= 1
        /\ ulast.stage = "send_tx" =>
              /\ Len(subs) = 1
              /\ ulast.keysAfter = ulast.keysBefore + 1
              /\ subs[1].fee_payer = WalletPubkey
              /\ Len(subs[1].ixs) = 2
              /\ subs[1].ixs[1].name = "InitializeUser"
              /\ subs[1].ixs[2].name = "DepositCollateral"
              /\ subs[1].ixs[2].args.amount = ulast.amount
              /\ subs[1].ixs[1].accounts.user_positions = key
              /\ subs[1].ixs[2].accounts.user_positions = key
              /\ \E i \in 1 .. Len(subs[1].signers) : subs[1].signers[i] = key
        /\ ulast.stage # "send_tx" =>
              /\ subs = <<>>
              /\ ulast.kind \notin {"Ok", "none"}

\* the combined call went through: the account exists under the new positions
\* key and holds the deposited amount
C10_Witness ==
    /\ ulast.op = "send_initialize_user_account_and_deposit_collateral"
    /\ ulast.kind = "Ok"
    /\ Len(ulast.submissions) = 1
    /\ ulast.submissions[1].outcome = "Confirmed"
    /\ userRemote # <<>>
    /\ userRemote[1].positions = KeyPubkey(ulast.keysAfter)
    /\ userRemote[1].collateral = ulast.amount

\* the combined call stopped while building an operation
C10_BuildFailed ==
    /\ ulast.op = "send_initialize_user_account_and_deposit_collateral"
    /\ ulast.stage = "initialize_user_ix"
    /\ ulast.kind = "ClientError"

\* C11: when the single create-and-fund submission does not go through, no
\* effect is applied on the ledger, the markets and user-record caches hold
\* the values they held before the call, and the state cache holds its old
\* value or, when it was empty, the State record the call read to build its
\* operations.
C11_RejectedLeavesLedgerAndCaches ==
    (/\ ulast.op = "send_initialize_user_account_and_deposit_collateral"
     /\ ulast.stage = "send_tx"
     /\ ulast.kind # "Ok") =>
        /\ ~ulast.ledgerChanged
        /\ markets_data = ulast.pre.markets
        /\ user_account = ulast.pre.user
        /\ \/ data = ulast.pre.data
           \/ ulast.pre.data = None /\ data = ulast.pre.remote.val

\* C11 as stated: every cache slot holds exactly its value from before the call
C11_CachesExactlyAsBefore ==
    (/\ ulast.op = "send_initialize_user_account_and_deposit_collateral"
     /\ ulast.stage = "send_tx"
     /\ ulast.kind # "Ok") =>
        /\ ~ulast.ledgerChanged
        /\ markets_data = ulast.pre.markets
        /\ user_account = ulast.pre.user
        /\ data = ulast.pre.data

\* the combined submission was sent and rejected
C11_Witness ==
    /\ ulast.op = "send_initialize_user_account_and_deposit_collateral"
    /\ ulast.stage = "send_tx"
    /\ Len(ulast.submissions) = 1
    /\ ulast.submissions[1].sent
    /\ ulast.submissions[1].outcome = "Rejected"
    /\ userRemote = <<>>

\* the number of requests of one kind among the requests of a call
CountOf(request, net) == Cardinality({i \in 1 .. Len(net) : net[i] = request})

\* C12: the operation list of the transaction send_tx submits equals the list
\* the caller gave, in the same order, nothing added and nothing left out.
C12_OrderPreserved ==
    ulast.op = "send_tx" =>
        /\ Len(ulast.submissions) = 1
        /\ ulast.submissions[1].ixs = ulast.args.ixs

\* two different operations went out in one accepted-for-sending submission
C12_Witness ==
    /\ ulast.op = "send_tx"
    /\ Len(ulast.args.ixs) = 2
    /\ ulast.args.ixs[1] # ulast.args.ixs[2]
    /\ ulast.submissions[1].sent

\* C13: in every send_tx call the wallet is the fee payer and the first
\* signer, and the caller's additional signers follow it, all of them.
C13_WalletFirstSigner ==
    ulast.op = "send_tx" =>
        LET tx == ulast.submissions[1]
            extra == ulast.args.additional_signers
        IN
        /\ tx.fee_payer = WalletPubkey
        /\ Len(tx.signers) = Len(extra) + 1
        /\ tx.signers[1] = WalletPubkey
        /\ \A i \in 1 .. Len(extra) : tx.signers[i + 1] = extra[i]

\* a call with two additional signers
C13_Witness ==
    /\ ulast.op = "send_tx"
    /\ Len(ulast.args.additional_signers) = 2
    /\ ulast.submissions[1].sent

\* C14: every send_tx call asks for the blockhash exactly once, before it
\* sends; the transaction carries the hash that request returned; when the
\* request fails nothing is sent and the call returns the error.
C14_FreshBlockhash ==
    ulast.op = "send_tx" =>
        LET tx == ulast.submissions[1]
            env == ulast.args.env
        IN
        /\ CountOf("get_latest_blockhash", tx.net) = 1
        /\ tx.net[1] = "get_latest_blockhash"
        /\ env.hash_ok => tx.blockhash = env.hash
        /\ ~env.hash_ok =>
              /\ ulast.kind = "ClientError"
              /\ ~tx.sent
              /\ CountOf("send_and_confirm_transaction", tx.net) = 0
              /\ ~ulast.ledgerChanged

\* a transaction sent with a hash other than the first one handed out
C14_Witness ==
    /\ ulast.op = "send_tx"
    /\ ulast.submissions[1].sent
    /\ ulast.args.env.hash # 1
    /\ ulast.submissions[1].blockhash = ulast.args.env.hash

\* C15: every send_tx call sends its transaction at most once, and a
\* transport failure or a rejection by the ledger comes back as an error that
\* carries that cause; nothing is applied then.
C15_NoRetry ==
    ulast.op = "send_tx" =>
        LET tx == ulast.submissions[1]
            env == ulast.args.env
        IN
        /\ CountOf("send_and_confirm_transaction", tx.net) <= 1
        /\ tx.sent <=> CountOf("send_and_confirm_transaction", tx.net) = 1
        /\ (env.hash_ok /\ env.send = "transport") =>
              /\ ulast.kind = "ClientError"
              /\ tx.outcome = "TransportError"
              /\ ~ulast.ledgerChanged
        /\ (env.hash_ok /\ env.send = "rejected") =>
              /\ ulast.kind = "ClientError"
              /\ tx.outcome = "Rejected"
              /\ ~ulast.ledgerChanged
        /\ ulast.kind = "Ok" => tx.outcome = "Confirmed"

\* a send that failed in transport, made once
C15_Witness ==
    /\ ulast.op = "send_tx"
    /\ ulast.submissions[1].outcome = "TransportError"
    /\ CountOf("send_and_confirm_transaction", ulast.submissions[1].net) = 1

PositionOps == {"send_open_position", "send_close_position"}

\* the one operation of the submission the most recent call handed to send_tx
BuiltIx == ulast.submissions[1].ixs[1]

\* the caches a position call consults were all filled before the call
CachesPopulated ==
    /\ ulast.pre.data # None
    /\ ulast.pre.markets # None
    /\ ulast.pre.user # <<>>

\* C16: send_open_position and send_close_position accept market index 0, and
\* answer any index at or past the end of the slots with an InvalidMarketIndex
\* error value.
C16_IndexBoundsChecked ==
    ulast.op \in PositionOps =>
        /\ ulast.args.market_index = 0 => ulast.stage # "market_index"
        /\ (ulast.args.market_index >= MarketSlots /\ CachesPopulated) =>
              ulast.kind = "InvalidMarketIndex"

\* C17: a call of send_open_position or send_close_position with an index at
\* or past the end of the slots makes no remote read and no submission.
C17_RejectedBeforeNetwork ==
    (ulast.op \in PositionOps /\ ulast.args.market_index >= MarketSlots) =>
        /\ ulast.reads = 0
        /\ ulast.submissions = <<>>

\* the account with this address is in the operation's remaining accounts
Listed(pubkey, ix) ==
    \E i \in 1 .. Len(ix.remaining) : ix.remaining[i].pubkey = pubkey

\* C18: in the operation send_open_position or send_close_position builds,
\* the discount token account is listed exactly when the caller supplied it
\* and its flag is set exactly when it is listed; the same for the referrer.
C18_OptionalAccountsMatchFlags ==
    (ulast.op \in PositionOps /\ ulast.stage = "send_tx") =>
        LET flags == BuiltIx.args.optional_accounts IN
        /\ Listed(DiscountTokenPubkey, BuiltIx) <=> ulast.args.discount_token # <<>>
        /\ flags.discount_token <=> Listed(DiscountTokenPubkey, BuiltIx)
        /\ Listed(ReferrerPubkey, BuiltIx) <=> ulast.args.referrer # <<>>
        /\ flags.referrer <=> Listed(ReferrerPubkey, BuiltIx)
        /\ Len(BuiltIx.remaining) =
              (IF ulast.args.discount_token # <<>> THEN 1 ELSE 0)
              + (IF ulast.args.referrer # <<>> THEN 1 ELSE 0)

\* a position opened with a discount token and without a referrer
C18_Witness ==
    /\ ulast.op = "send_open_position"
    /\ ulast.stage = "send_tx"
    /\ ulast.args.discount_token # <<>>
    /\ ulast.args.referrer = <<>>
    /\ BuiltIx.args.optional_accounts.discount_token
    /\ ~BuiltIx.args.optional_accounts.referrer

BuilderOps ==
    {"send_deposit_collateral", "send_withdraw_collateral",
     "send_open_position", "send_close_position"}

\* C19: with the state, markets and user-record caches filled, the four
\* builders read no remote account, leave the caches as they are, ask the
\* endpoint only for the blockhash and the send, and build their operation
\* from the cached records, whatever the ledger holds by then.
C19_BuildersUseCache ==
    (ulast.op \in BuilderOps /\ CachesPopulated) =>
        /\ ulast.reads = 0
        /\ data = ulast.pre.data
        /\ markets_data = ulast.pre.markets
        /\ user_account = ulast.pre.user
        /\ ulast.stage \in {"send_tx", "market_index"}
        /\ ulast.stage = "send_tx" =>
              LET state == StateRecord(ulast.pre.data)
                  acc == BuiltIx.accounts
              IN
              /\ Len(ulast.submissions) = 1
              /\ CountOf("get_latest_blockhash", ulast.submissions[1].net) = 1
              /\ CountOf("send_and_confirm_transaction",
                         ulast.submissions[1].net) <= 1
              /\ acc.user_positions = ulast.pre.user[1].positions
              /\ acc.funding_payment_history = state.funding_payment_history
              /\ ulast.op \in {"send_deposit_collateral",
                               "send_withdraw_collateral"} =>
                    /\ acc.collateral_vault = state.collateral_vault
                    /\ acc.deposit_history = state.deposit_history
              /\ ulast.op \in PositionOps =>
                    /\ acc.trade_history = state.trade_history
                    /\ acc.oracle =
                          MarketsRecord(ulast.pre.markets)[
                              ulast.args.market_index].oracle

\* a position opened from a state cache the ledger has since moved past
C19_Witness ==
    /\ ulast.op = "send_open_position"
    /\ CachesPopulated
    /\ ulast.pre.data # ulast.pre.remote.val
    /\ ulast.stage = "send_tx"
    /\ ulast.kind = "Ok"
    /\ ulast.reads = 0

\* C20: a failed read of the user account comes back as an error value from
\* user_account and from every call that goes through it.
C20_ReadFailureIsErrorValue ==
    (\/ ulast.op \in {"user_account", "send_deposit_collateral",
                      "send_withdraw_collateral"}
     \/ ulast.op \in PositionOps /\ ulast.args.market_index < MarketSlots) =>
        ulast.kind # "Panic"

(***************************************************************************)
(* Properties of the account facade, of the admin calls and of the user    *)
(* facade's address and record caches.                                     *)
(***************************************************************************)
\* C21: the facade's unsubscribe returns, and before it returns every one of
\* the eight handles got at least one and at most three unsubscribe attempts;
\* the handles reported as failed are those that failed all three
C21_EveryHandleAttempted ==
    ulast.op = "unsubscribe" =>
        /\ ulast.kind = "Ok"
        /\ \A h \in AccountNames :
              /\ ulast.args.attempts[h] \in 1 .. UnsubRetries + 1
              /\ h \in ulast.args.reported <=>
                     (ulast.pre[h] /\ ulast.args.attempts[h] = UnsubRetries + 1)

\* C22: send_initialize_clearing_house submits nothing when the State account
\* exists: it returns AccountCannotBeInitialized when the pre-check read finds
\* the account and the read's own error otherwise, and it submits nothing when
\* the read fails on a ledger without State either;
\* send_initialize_clearing_market submits nothing for a slot that is already
\* initialized and returns AccountCannotBeInitialized once its two reads
\* succeeded
C22_ExistingRejectedBeforeSubmission ==
    /\ ulast.op = "send_initialize_clearing_house" =>
          /\ ulast.pre.state # <<>> =>
                /\ ulast.submissions = <<>>
                /\ ~ulast.ledgerChanged
                /\ ulast.keysAfter = ulast.keysBefore
                /\ ulast.kind = IF ulast.args.read = "found"
                                THEN "AccountCannotBeInitialized"
                                ELSE "ClientError"
          /\ ulast.args.read = "error" =>
                /\ ulast.submissions = <<>>
                /\ ulast.kind = "ClientError"
    /\ (/\ ulast.op = "send_initialize_clearing_market"
        /\ ulast.args.market_index \in ulast.pre.slots) =>
          /\ ulast.submissions = <<>>
          /\ ~ulast.ledgerChanged
          /\ ulast.stage \notin {"state", "markets"} =>
                ulast.kind = "AccountCannotBeInitialized"

\* the market call was made on a slot that is initialized
C22_WitnessMarket ==
    /\ ulast.op = "send_initialize_clearing_market"
    /\ ulast.args.market_index \in ulast.pre.slots
    /\ ulast.kind = "AccountCannotBeInitialized"

\* the clearing house call was made with the State account in place
C22_Witness ==
    /\ ulast.op = "send_initialize_clearing_house"
    /\ ulast.pre.state # <<>>
    /\ ulast.kind = "AccountCannotBeInitialized"

\* the operations named `name` among the submissions of the most recent call
OpsNamed(name) ==
    {ix \in UNION {{ulast.submissions[i].ixs[j] :
                       j \in DOMAIN ulast.submissions[i].ixs} :
                   i \in DOMAIN ulast.submissions} : ix.name = name}

C24_DerivationDeterministic ==
    LET derived == FindProgramAddress(<<"user">> \o WalletPubkey, ProgramId)
        call == UserAccountPubkeyAndNonce(Facade)
    IN /\ user_pubkey_and_nonce \in {<<>>, <<derived>>}
       /\ <<call.pubkey, call.nonce>> = <<derived.pubkey, derived.nonce>>
       /\ call.f.memo = <<derived>>
       /\ (/\ ulast.op = "send_initialize_user_account_and_deposit_collateral"
           /\ ulast.kind = "Ok") => ulast.user = derived.pubkey

\* the combined call returned a user address, the pair being memoised
C24_Witness ==
    /\ ulast.op = "send_initialize_user_account_and_deposit_collateral"
    /\ ulast.kind = "Ok"
    /\ ulast.user # <<>>
    /\ user_pubkey_and_nonce # <<>>

\* the addresses a submission creates or initialises as new accounts
CreatedBy(tx) ==
    {tx.ixs[j].to_pubkey :
        j \in {n \in DOMAIN tx.ixs : tx.ixs[n].name = "CreateAccount"}}
    \cup {tx.ixs[j].accounts.user_positions :
             j \in {n \in DOMAIN tx.ixs : tx.ixs[n].name = "InitializeUser"}}

\* the keypairs generated during the most recent call
GeneratedNow == {KeyPubkey(i) : i \in ulast.keysBefore + 1 .. ulast.keysAfter}

\* C25: in every submission of send_intialize_user_account,
\* send_initialize_user_account_and_deposit_collateral and
\* send_initialize_clearing_house, each address the submission creates is a
\* keypair generated during this very call and is among the submission's
\* signers, and every signer besides the wallet is such a keypair: none
\* generated by an earlier call appears
C25_EphemeralKeysFreshAndSigning ==
    ulast.op \in {"send_intialize_user_account",
                  "send_initialize_user_account_and_deposit_collateral",
                  "send_initialize_clearing_house"} =>
        \A s \in DOMAIN ulast.submissions :
           LET tx == ulast.submissions[s]
               signers == {tx.signers[n] : n \in DOMAIN tx.signers}
           IN /\ CreatedBy(tx) # {}
              /\ CreatedBy(tx) \subseteq signers
              /\ CreatedBy(tx) \subseteq GeneratedNow
              /\ signers \ {WalletPubkey} \subseteq GeneratedNow
              /\ \A i \in 1 .. ulast.keysBefore : KeyPubkey(i) \notin signers

\* a clearing house initialised by a call made after keypairs had been
\* generated by earlier calls
C25_Witness ==
    /\ ulast.op = "send_initialize_clearing_house"
    /\ ulast.keysBefore > 0
    /\ Len(ulast.submissions) = 2
    /\ \A s \in 1 .. 2 : ulast.submissions[s].outcome = "Confirmed"

\* the receiver threads of the handle's address that have not returned
AliveReceivers == {c \in Channels : thread[c] = "running"}

\* C26: whenever the handle is subscribed, exactly one receiver thread for
\* its address is alive: the one spawned for the subscription has not
\* exited, and no other one runs beside it
C26_OneReceiverWhileSubscribed ==
    IsSubscribed(subscription) =>
        /\ Cardinality(AliveReceivers) = 1
        /\ thread[subscription] = "running"

ExpectedSize(f) ==
    CASE f = "markets" -> 33416
      [] f = "funding_rate_history" -> 114704
      [] f = "funding_payment_history" -> 188432
      [] f = "trade_history" -> 247824
      [] f = "liquidation_history" -> 254992
      [] f = "deposit_history" -> 132112
      [] f = "curve_history" -> 8720

\* the fields of Initialize and InitializeHistory that list accounts the call
\* has to create
CreatedFields ==
    {"markets", "funding_rate_history", "funding_payment_history",
     "trade_history", "liquidation_history", "deposit_history",
     "curve_history"}

\* the j-th operation of tx is an initialize operation listing addr in one of
\* those fields, f
Uses(tx, j, f, addr) ==
    /\ tx.ixs[j].name \in {"Initialize", "InitializeHistory"}
    /\ f \in DOMAIN tx.ixs[j].accounts
    /\ tx.ixs[j].accounts[f] = addr

\* C28: in every submission of send_initialize_clearing_house, each
\* create-account operation reserves the size of the type under whose field
\* an initialize operation later in the same submission lists the account,
\* is owned by the program, and every account an initialize operation lists
\* in such a field is created by an operation placed before it
C28_CreateSizedAndFirst ==
    ulast.op = "send_initialize_clearing_house" =>
        \A s \in DOMAIN ulast.submissions :
           LET tx == ulast.submissions[s] IN
           /\ \A j \in DOMAIN tx.ixs :
                 tx.ixs[j].name = "CreateAccount" =>
                    /\ tx.ixs[j].owner = ProgramId
                    /\ \E k \in DOMAIN tx.ixs, f \in CreatedFields :
                          /\ j < k
                          /\ Uses(tx, k, f, tx.ixs[j].to_pubkey)
                          /\ tx.ixs[j].space = ExpectedSize(f)
           /\ \A k \in DOMAIN tx.ixs, f \in CreatedFields :
                 Uses(tx, k, f, tx.ixs[k].accounts[f]) =>
                    \E j \in 1 .. k - 1 :
                       /\ tx.ixs[j].name = "CreateAccount"
                       /\ tx.ixs[j].to_pubkey = tx.ixs[k].accounts[f]

\* both submissions went through: the seven accounts exist, State and the
\* histories are initialised
C28_Witness ==
    /\ ulast.op = "send_initialize_clearing_house"
    /\ ulast.kind = "Ok"
    /\ Cardinality(house.created) = 7
    /\ house.history

\* C29: the cached value is None at construction and stays None until a
\* get_data call returns Ok; a get_data call that returns an error, after the
\* reader's retries or on a decode failure, leaves the cached value as it
\* found it
C29_CacheKeptOnError ==
    /\ data = None
    /\ [][/\ (data = None /\ data' # None) =>
                (last'.op = "get_data" /\ last'.kind = "Ok")
          /\ (last' # last /\ last'.op = "get_data" /\ last'.kind # "Ok") =>
                (data' = data /\ last'.preData = data)]_vars

\* a forced get on a handle holding a record failed, and the record is
\* still there
C29_Witness ==
    /\ last.op = "get_data"
    /\ last.kind # "Ok"
    /\ Reads(last) >= 1
    /\ last.preData # None
    /\ data = last.preData

\* C30: user_account(true), and user_account(false) on an empty cache, read
\* the user account, and when the call returns, the record returned and
\* cached is the one on the ledger at that moment; user_account(false) on a
\* filled cache issues no read and returns the cached record, which stays
C30_UserAccountForceSemantics ==
    ulast.op = "user_account" =>
        LET force == ulast.args.force
            cached == ulast.pre.user
        IN /\ (force \/ cached = <<>>) =>
                 /\ ulast.reads >= 1
                 /\ ulast.kind = "Ok" =>
                       /\ ulast.user = userRemote
                       /\ user_account = userRemote
           /\ (~force /\ cached # <<>>) =>
                 /\ ulast.reads = 0
                 /\ ulast.kind = "Ok"
                 /\ ulast.user = cached
                 /\ user_account = cached

\* after a confirmed withdrawal of all the collateral, user_account(true)
\* on a facade whose cache still showed collateral returned collateral 0
C30_Witness ==
    /\ ulast.op = "user_account"
    /\ ulast.args.force
    /\ ulast.kind = "Ok"
    /\ ulast.pre.user # <<>>
    /\ ulast.pre.user[1].collateral > 0
    /\ ulast.user[1].collateral = 0

\* user_account(false) returned a cached record that the ledger no longer
\* holds
C30_WitnessCached ==
    /\ ulast.op = "user_account"
    /\ ~ulast.args.force
    /\ ulast.kind = "Ok"
    /\ ulast.pre.user # <<>>
    /\ ulast.user # userRemote

\* C31: each handle of a facade that was constructed owns the address the
\* State record read at construction gives for the handle's own account type,
\* and the State handle owns the derived state address
C31_HandlesPointAtOwnField ==
    (ulast.op = "new" /\ ulast.kind = "Ok") =>
        /\ ulast.args.pubkeys.state =
              FindProgramAddress(<<"clearing_house">>, ProgramId).pubkey
        /\ \A h \in AccountNames \ {"state"} :
              ulast.args.pubkeys[h] = StateRecord(ulast.args.state_data)[h]

\* the names of the operations of a submission, in order
OpNames(tx) == [j \in DOMAIN tx.ixs |-> tx.ixs[j].name]

\* the submissions of the most recent send_initialize_clearing_house: at most
\* two; the first creates the markets account and then initializes State
\* with it, the second creates six accounts and then initializes the
\* histories, and it exists only when the first was confirmed
TwoSubmissionsInOrder ==
    LET subs == ulast.submissions IN
    /\ Len(subs) <= 2
    /\ Len(subs) >= 1 =>
          /\ OpNames(subs[1]) = <<"CreateAccount", "Initialize">>
          /\ subs[1].ixs[1].to_pubkey = subs[1].ixs[2].accounts.markets
    /\ Len(subs) = 2 =>
          /\ subs[1].outcome = "Confirmed"
          /\ ulast.pre.state = <<>>
          /\ OpNames(subs[2]) =
                [j \in 1 .. 7 |-> IF j <= 6 THEN "CreateAccount"
                                            ELSE "InitializeHistory"]
    /\ (ulast.kind = "Ok" \/ ulast.stage = "initialize_history") =>
          Len(subs) = 2

\* C32 as stated: send_initialize_clearing_house makes its two submissions in
\* the fixed order, the second only after the first was confirmed, and every
\* call made once the State account exists returns
\* AccountCannotBeInitialized without a submission
C32_LaterCallsAlwaysAlreadyInitialized ==
    ulast.op = "send_initialize_clearing_house" =>
        /\ TwoSubmissionsInOrder
        /\ ulast.pre.state # <<>> =>
              /\ ulast.submissions = <<>>
              /\ ulast.kind = "AccountCannotBeInitialized"

\* C32, amended: send_initialize_clearing_house makes its two submissions in
\* the fixed order, the second only after the first was confirmed; the State
\* account, once it exists, stays as it is, whether or not the histories were
\* initialised; and every call made once it exists submits nothing and
\* returns AccountCannotBeInitialized when its pre-check read is answered,
\* the read's own error when it is not
C32_TwoSubmissionsThenRejected ==
    /\ [](ulast.op = "send_initialize_clearing_house" =>
            /\ TwoSubmissionsInOrder
            /\ ulast.pre.state # <<>> =>
                  /\ ulast.submissions = <<>>
                  /\ ~ulast.ledgerChanged
                  /\ ulast.kind = IF ulast.args.read = "found"
                                  THEN "AccountCannotBeInitialized"
                                  ELSE "ClientError")
    /\ [][house.state # <<>> =>
            /\ house'.state = house.state
            /\ house'.history = house.history
            /\ house'.created = house.created]_vars

\* a call rejected on a ledger where an earlier run confirmed the first
\* submission and failed the second: State exists, the histories do not
C32_Witness ==
    /\ ulast.op = "send_initialize_clearing_house"
    /\ ulast.kind = "AccountCannotBeInitialized"
    /\ ulast.submissions = <<>>
    /\ house.state # <<>>
    /\ ~house.history
    /\ Cardinality(house.created) = 1

\* the account type a consumer variant is for
VariantAccount ==
    [StateConsumer |-> "state", MarketsConsumer |-> "markets",
     TradeHistoryConsumer |-> "trade_history",
     DepositHistoryConsumer |-> "deposit_history",
     FundingPaymentHistoryConsumer |-> "funding_payment_history",
     FundingRateHistoryConsumer |-> "funding_rate_history",
     CurveHistoryConsumer |-> "curve_history",
     LiquidationHistoryConsumer |-> "liquidation_history"]

\* C33: the facade's subscribe(consumer) leaves the markers of the seven
\* handles whose type the consumer is not for as they were; when it returns,
\* the handle of the consumer's type is subscribed: it opened one channel
\* and handed the consumer over if the handle was not subscribed, and it
\* opened no channel and handed over no consumer if the handle was
C33_SubscribeActsOnMatchingHandleOnly ==
    ulast.op = "subscribe" =>
        LET h == VariantAccount[ulast.args.consumer.variant] IN
        /\ \A g \in AccountNames \ {h} : markers[g] = ulast.pre[g]
        /\ ulast.kind = "Ok" =>
              /\ markers[h]
              /\ ulast.pre[h] =>
                    ulast.args.opened = 0 /\ ulast.args.registered = None
              /\ ~ulast.pre[h] =>
                    /\ ulast.args.opened = 1
                    /\ ulast.args.registered = ulast.args.consumer.f

\* subscribe returned on a handle that was subscribed already, with other
\* handles subscribed and others not
C33_Witness ==
    /\ ulast.op = "subscribe"
    /\ ulast.kind = "Ok"
    /\ ulast.pre[ulast.args.handle]
    /\ ulast.args.opened = 0
    /\ \E g \in AccountNames \ {ulast.args.handle} : markers[g]
    /\ \E g \in AccountNames \ {ulast.args.handle} : ~markers[g]

\* subscribe returned on a handle that was not subscribed
C33_WitnessFresh ==
    /\ ulast.op = "subscribe"
    /\ ulast.kind = "Ok"
    /\ ~ulast.pre[ulast.args.handle]
    /\ ulast.args.opened = 1
    /\ markers[ulast.args.handle]

\* C34: an unsubscribe request that fails leaves the handle's marker as it
\* was: after the facade's unsubscribe, every handle the call reported as
\* failed was subscribed, got all of its attempts and is still subscribed,
\* and when the call returned, so that no request of it was accepted, the
\* subscribed handles are exactly the reported ones and no marker changed
C34_FailedUnsubscribeKeepsMarker ==
    ulast.op = "unsubscribe" =>
        /\ \A h \in ulast.args.reported :
              /\ ulast.pre[h]
              /\ ulast.args.attempts[h] = UnsubRetries + 1
              /\ markers[h]
        /\ ulast.kind = "Ok" =>
              /\ markers = ulast.pre
              /\ ulast.args.reported = {h \in AccountNames : ulast.pre[h]}

\* unsubscribe went through all the retries of two subscribed handles and
\* returned
C34_Witness ==
    /\ ulast.op = "unsubscribe"
    /\ ulast.kind = "Ok"
    /\ Cardinality(ulast.args.reported) >= 2
    /\ \A h \in ulast.args.reported : markers[h]

\* the same on one handle: an unsubscribe that returned the request's error
\* found the handle subscribed and leaves it subscribed to the same channel
C34_HandleKeepsSubscription ==
    (last.op = "unsubscribe" /\ last.kind = "PubsubClientError") =>
        /\ last.sent
        /\ IsSubscribed(last.preSub)
        /\ subscription = last.preSub

\* C35: a subscribe that returned the error of a channel that could not be
\* opened spawned no receiver thread, opened no channel and left the marker
\* as it was, so that a handle that was not subscribed is not subscribed
C35_FailedSubscribeChangesNothing ==
    (last.op = "subscribe" /\ last.kind = "PubsubClientError") =>
        /\ spawned = last.preSpawned
        /\ nChannels = last.preChannels
        /\ subscription = last.preSub
        /\ ~IsSubscribed(last.preSub) => ~IsSubscribed(subscription)

\* a subscribe failed on a handle that was not subscribed
C35_Witness ==
    /\ last.op = "subscribe"
    /\ last.kind = "PubsubClientError"
    /\ ~IsSubscribed(last.preSub)
    /\ ~IsSubscribed(subscription)
    /\ spawned = 0

\* a subscribe failed on a handle that was subscribed, its receiver alive
C35_WitnessSubscribed ==
    /\ last.op = "subscribe"
    /\ last.kind = "PubsubClientError"
    /\ IsSubscribed(subscription)
    /\ thread[subscription] = "running"

\* C36: send_delete_user leaves the user-record cache as it found it; a
\* cached record is replaced by no call but user_account(true), whatever
\* happens to the account on the ledger; until then user_account(false)
\* returns the cached record without a read, and a deposit built without a
\* positions address names the positions address of the cached record
C36_DeleteLeavesUserCache ==
    /\ [](/\ ulast.op = "send_delete_user" => user_account = ulast.pre.user
          /\ (/\ ulast.op = "user_account"
              /\ ~ulast.args.force
              /\ ulast.pre.user # <<>>) =>
                /\ ulast.kind = "Ok"
                /\ ulast.reads = 0
                /\ ulast.user = ulast.pre.user
                /\ user_account = ulast.pre.user
          /\ (/\ ulast.op = "send_deposit_collateral"
              /\ ulast.args.positions = <<>>
              /\ ulast.pre.user # <<>>
              /\ ulast.submissions # <<>>) =>
                ulast.submissions[1].ixs[1].accounts.user_positions =
                    ulast.pre.user[1].positions)
    /\ [][(user_account # <<>> /\ user_account' # user_account) =>
             (ulast'.op = "user_account" /\ ulast'.args.force)]_vars

\* the account was deleted and created again with another positions address
\* while its record was cached, and user_account(false) returned the cached
\* record
C36_Witness ==
    /\ ulast.op = "user_account"
    /\ ~ulast.args.force
    /\ ulast.kind = "Ok"
    /\ ulast.user = user_account
    /\ userRemote # <<>>
    /\ userRemote[1].positions # user_account[1].positions

\* a delete was confirmed with the record cached: the ledger holds no user
\* account, the cache still does
C36_WitnessDeleted ==
    /\ ulast.op = "send_delete_user"
    /\ ulast.kind = "Ok"
    /\ userRemote = <<>>
    /\ user_account # <<>>

\* a deposit built from the cached record after the re-creation
C36_WitnessDeposit ==
    /\ ulast.op = "send_deposit_collateral"
    /\ ulast.args.positions = <<>>
    /\ ulast.submissions # <<>>
    /\ userRemote # <<>>
    /\ ulast.submissions[1].ixs[1].accounts.user_positions
          # userRemote[1].positions

====
